---- MODULE Spec2Model ----
(***************************************************************************)
(* Two implementations of a small version-control engine.                  *)
(*   implementation 1: blobs + stage.json + commit_list.json + index.json  *)
(*   implementation 2: object store + index + refs/heads + HEAD            *)
(* A command is a handler that computes, from the files it reads, the      *)
(* sequence of file writes it makes (its program).  An exception ends the  *)
(* command where it is raised and leaves the writes already made.          *)
(*   Spec      both implementations, every command run as one step         *)
(*   SpecSteps implementation 2, the writes of checkout made one by one    *)
(*   SpecTree  create_tree_from_index applied to every small index         *)
(*   SpecWrites both implementations, the writes of commit and checkout    *)
(*             made one by one                                             *)
(*   SpecRef   the writes of a ref, of HEAD and of index.json made as a    *)
(*             truncation followed by the write of the new content         *)
(*   SpecAdd   two add processes whose steps interleave                    *)
(*   SpecSwitch both implementations, two files side by side               *)
(*   SpecCommit implementation 2, two commit processes whose steps          *)
(*             interleave                                                  *)
(***************************************************************************)
EXTENDS Integers, Sequences, FiniteSets, TLC

\* ------------------------------------------------------------------ bounds
MaxContent == 2
MaxCommits == 2

Contents == 1 .. MaxContent
Messages == {"m"}
Times == {1}
BranchNames == {"master", "feature"}

\* A path is the sequence of its components ("d/a" is <<"d", "a">>).
Root == <<>>
Nodes == {<<"d">>, <<"d", "a">>}
Parent(p) == SubSeq(p, 1, Len(p) - 1)
DirNodes == {Parent(p) : p \in Nodes} \ {Root}
IsPrefix(p, q) == Len(p) <= Len(q) /\ SubSeq(q, 1, Len(p)) = p

\* Python's order on the strings the model uses (str.__lt__).
NameOrder == <<".vc", "100644", "40000", "a", "d", "e", "objects", "x">>
StrRank(s) == CHOOSE i \in 1 .. Len(NameOrder) : NameOrder[i] = s

VARIABLES
    impl,           \* which implementation the repository is run with
    wd,             \* working directory: [files: path -> bytes, dirs: set of paths]
    objects,        \* impl 2: .vc/objects, hash -> stored bytes
    index,          \* impl 2: .vc/index, insertion-ordered dict path -> blob hash
    heads,          \* impl 2: .vc/refs/heads, branch name -> commit hash
    HEAD,           \* impl 2: .vc/HEAD
    blobs,          \* impl 1: .vc/blobs, the hashes stored
    stage,          \* impl 1: .vc/stage.json, nested dict
    commit_tree,    \* impl 1: .vc/commit_tree, tree hash -> stage
    commit_list,    \* impl 1: .vc/commit_list.json, commit hash -> commit
    index_json,     \* impl 1: .vc/index.json
    todo,           \* the writes the running command has still to make
    last            \* the command whose writes are made one by one: its
                    \* name, its outcome and what HEAD named when it began

vars == <<impl, wd, objects, index, heads, HEAD, blobs, stage, commit_tree,
          commit_list, index_json, todo, last>>
vars1 == <<blobs, stage, commit_tree, commit_list, index_json>>
vars2 == <<objects, index, heads, HEAD>>

\* ------------------------------------------------------------ dictionaries
\* A Python dict keeps insertion order: a sequence of <<key, value>> pairs.
dict_has(d, k) == \E i \in 1 .. Len(d) : d[i][1] = k
dict_get(d, k) == d[CHOOSE i \in 1 .. Len(d) : d[i][1] = k][2]
dict_set(d, k, v) ==
    IF dict_has(d, k)
    THEN [i \in 1 .. Len(d) |-> IF d[i][1] = k THEN <<k, v>> ELSE d[i]]
    ELSE Append(d, <<k, v>>)
dict_keys(d) == {d[i][1] : i \in 1 .. Len(d)}
dict_items(d) == {d[i] : i \in 1 .. Len(d)}

\* A finite map with no order (a directory of files, a JSON object whose
\* order nothing reads).
map_put(f, k, v) == [x \in (DOMAIN f) \cup {k} |-> IF x = k THEN v ELSE f[x]]
map_del(f, k) == [x \in (DOMAIN f) \ {k} |-> f[x]]
EmptyMap == [x \in {} |-> 0]

\* ------------------------------------------------------- working directory
ParentOk(w, p) == Parent(p) = Root \/ Parent(p) \in w.dirs
is_file(w, p) == p \in DOMAIN w.files
is_dir(w, p) == p = Root \/ p \in w.dirs
\* Path.write_bytes: IsADirectoryError on a directory, FileNotFoundError or
\* NotADirectoryError when the parent is no directory.
write_bytes(w, p, c) ==
    IF p \in w.dirs \/ ~ParentOk(w, p)
    THEN [ok |-> FALSE, w |-> w]
    ELSE [ok |-> TRUE, w |-> [w EXCEPT !.files = map_put(@, p, c)]]
\* Path.mkdir(exist_ok=True): FileExistsError when the path is a file.
mkdir(w, p) ==
    IF p \in w.dirs THEN [ok |-> TRUE, w |-> w]
    ELSE IF is_file(w, p) \/ ~ParentOk(w, p) THEN [ok |-> FALSE, w |-> w]
    ELSE [ok |-> TRUE, w |-> [w EXCEPT !.dirs = @ \cup {p}]]
unlink(w, p) == [w EXCEPT !.files = map_del(@, p)]
\* The regular files beneath a directory (Path.rglob("*") with is_file()).
rglob_files(w, p) == {q \in DOMAIN w.files : IsPrefix(p, q)}

\* ------------------------------------------------ implementation 2: objects
Blob(content) == [obj_type |-> "blob", content |-> content]
\* VCObject.hash: SHA-1 of the header (type, length) and the content; the
\* digest is modelled as collision free.
hash(obj) == [sha1 |-> <<obj.obj_type, obj.content>>]
\* VCObject.serialize / deserialize: zlib over header and content.
serialize(obj) == [zlib |-> <<obj.obj_type, obj.content>>]
deserialize(data) == [obj_type |-> data.zlib[1], content |-> data.zlib[2]]

\* sorted() on (mode, name, hash) tuples; names are unique within a tree.
tuple_less(e, f) ==
    \/ StrRank(e[1]) < StrRank(f[1])
    \/ e[1] = f[1] /\ StrRank(e[2]) < StrRank(f[2])
RECURSIVE sorted(_)
sorted(s) ==
    IF Len(s) = 0 THEN <<>>
    ELSE LET rest == sorted(Tail(s))
             x == Head(s)
             k == Cardinality({i \in 1 .. Len(rest) : tuple_less(rest[i], x)})
         IN SubSeq(rest, 1, k) \o <<x>> \o SubSeq(rest, k + 1, Len(rest))
RECURSIVE concat_entries(_)
concat_entries(s) ==
    IF Len(s) = 0 THEN <<>> ELSE Head(s) \o concat_entries(Tail(s))
\* Tree._serialize_entries: "<mode> <name>\0<hash>" of each entry, sorted.
serialize_entries(entries) == concat_entries(sorted(entries))
Tree(entries) == [obj_type |-> "tree", content |-> serialize_entries(entries)]
\* Tree.from_content: the entries read back, three fields at a time.
tree_from_content(content) ==
    [i \in 1 .. (Len(content) \div 3) |->
        <<content[3 * i - 2], content[3 * i - 1], content[3 * i]>>]

\* Commit._serialize_commit: the lines of the commit text.
serialize_commit(tree_hash, parent_hashes, author, committer, message, timestamp) ==
    <<[k |-> "tree", v |-> tree_hash]>>
    \o [i \in 1 .. Len(parent_hashes) |-> [k |-> "parent", v |-> parent_hashes[i]]]
    \o <<[k |-> "author", v |-> author, ts |-> timestamp],
         [k |-> "committer", v |-> committer, ts |-> timestamp],
         [k |-> "blank"],
         [k |-> "message", v |-> message]>>
Commit(tree_hash, parent_hashes, author, committer, message, timestamp) ==
    [obj_type |-> "commit",
     content |-> serialize_commit(tree_hash, parent_hashes, author, committer,
                                  message, timestamp)]
\* Commit.from_content: the tree and parent lines before the blank line.
commit_from_content(content) ==
    LET blank == CHOOSE i \in 1 .. Len(content) : content[i].k = "blank"
        hdr == SubSeq(content, 1, blank - 1)
        ps == SelectSeq(hdr, LAMBDA l : l.k = "parent")
    IN [tree_hash |-> hdr[CHOOSE i \in 1 .. Len(hdr) : hdr[i].k = "tree"].v,
        parent_hashes |-> [i \in 1 .. Len(ps) |-> ps[i].v]]

\* A store whose file name also depends on how many objects are stored.
store_result_salted(objs, obj) ==
    map_put(objs, [sha1 |-> <<obj.obj_type, obj.content, Cardinality(DOMAIN objs)>>],
            serialize(obj))
\* store_object: written only when no file of that hash exists.
store_result(objs, obj) ==
    IF hash(obj) \in DOMAIN objs THEN objs
    ELSE map_put(objs, hash(obj), serialize(obj))
\* The hex digest that names the file of the blob of a user's content.
HexNames == <<"b1", "b2", "b3", "b4">>
\* The file of a blob object, objects_dir / obj_hash[:2] / obj_hash[2:] (lines
\* 38-40), as a path relative to the repository; the two levels of the hex
\* name are one part here.
object_path(obj_hash) == <<".vc", "objects", HexNames[obj_hash.sha1[2]]>>
\* The objects whose file is at a path: none for a path outside .vc/objects.
object_at(path) ==
    IF Len(path) = 3 /\ path[1] = ".vc" /\ path[2] = "objects"
    THEN {hash(Blob(c)) : c \in {i \in 1 .. Len(HexNames) : HexNames[i] = path[3]}}
    ELSE {}
\* The bytes of the file of a blob object, as read_bytes returns them: the
\* zlib stream, a byte string that is none of the contents the user writes.
compressed(data) == MaxContent + data.zlib[2]
\* Path.read_bytes on a path relative to the repository: a file of the
\* working directory, or the file of a stored object.
read_bytes(S, path) ==
    IF path \in DOMAIN S.wd.files THEN S.wd.files[path]
    ELSE compressed(S.objects[CHOOSE h \in object_at(path) : TRUE])
\* load_object: FileNotFoundError when the object file is missing.
load_object(objs, obj_hash) ==
    IF obj_hash \in DOMAIN objs
    THEN [ok |-> TRUE, obj |-> deserialize(objs[obj_hash])]
    ELSE [ok |-> FALSE]
is_commit(obj_hash) == obj_hash.sha1[1] = "commit"
commits_of(objs) == {h \in DOMAIN objs : is_commit(h)}

\* log: lines 380-399.  The hashes of the commits printed, in the order
\* printed; the loop runs while there is a commit hash and count < max_count.
\* log_loop_inclusive is the loop with count <= max_count.
RECURSIVE log_loop_inclusive(_, _, _, _)
log_loop_inclusive(objs, commit_hash, count, max_count) ==
    IF Len(commit_hash) = 0 \/ ~(count <= max_count) THEN <<>>
    ELSE LET commit_obj == load_object(objs, commit_hash[1])
             commit == commit_from_content(commit_obj.obj.content)
             parent == IF Len(commit.parent_hashes) > 0
                       THEN <<commit.parent_hashes[1]>> ELSE <<>>
         IN IF ~commit_obj.ok THEN <<>>
            ELSE <<commit_hash[1]>> \o
                 log_loop_inclusive(objs, parent, count + 1, max_count)
RECURSIVE log_loop(_, _, _, _)
log_loop(objs, commit_hash, count, max_count) ==
    IF Len(commit_hash) = 0 \/ ~(count < max_count) THEN <<>>
    ELSE LET commit_obj == load_object(objs, commit_hash[1])
             commit == commit_from_content(commit_obj.obj.content)
             parent == IF Len(commit.parent_hashes) > 0
                       THEN <<commit.parent_hashes[1]>> ELSE <<>>
         IN IF ~commit_obj.ok THEN <<>>
            ELSE <<commit_hash[1]>> \o
                 log_loop(objs, parent, count + 1, max_count)

\* ------------------------------------------- implementation 2: tree building
StrVal(h) == [t |-> "str", v |-> h]
DictVal(d) == [t |-> "dict", v |-> d]
\* Lines 141-152: walk down the nested dicts, creating the missing ones, and
\* set the last part.  Walking into a value that is a str is a TypeError.
RECURSIVE insert_nested(_, _, _)
insert_nested(current, parts, blob_hash) ==
    IF Len(parts) = 1
    THEN [ok |-> TRUE, v |-> dict_set(current, parts[1], StrVal(blob_hash))]
    ELSE LET part == parts[1]
             made == IF dict_has(current, part) THEN current
                     ELSE dict_set(current, part, DictVal(<<>>))
             next == dict_get(made, part)
         IN IF next.t # "dict" THEN [ok |-> FALSE, v |-> current]
            ELSE LET r == insert_nested(next.v, Tail(parts), blob_hash)
                 IN IF r.ok
                    THEN [ok |-> TRUE, v |-> dict_set(made, part, DictVal(r.v))]
                    ELSE [ok |-> FALSE, v |-> current]
\* Lines 131-152: the index split into root files and nested directories.
RECURSIVE split_index(_, _)
split_index(idx, n) ==
    IF n = 0 THEN [ok |-> TRUE, files |-> <<>>, dirs |-> <<>>]
    ELSE LET prev == split_index(idx, n - 1)
             parts == idx[n][1]
             blob_hash == idx[n][2]
         IN IF ~prev.ok THEN prev
            ELSE IF Len(parts) = 1
            THEN [prev EXCEPT !.files = dict_set(@, parts[1], blob_hash)]
            ELSE LET r == insert_nested(prev.dirs, parts, blob_hash)
                 IN IF r.ok THEN [prev EXCEPT !.dirs = r.v]
                    ELSE [prev EXCEPT !.ok = FALSE]
\* Lines 167-169: root_entries = {**files}, then every directory by name.
RECURSIVE root_entries(_, _, _)
root_entries(files, dirs, n) ==
    IF n = 0
    THEN [i \in 1 .. Len(files) |-> <<files[i][1], StrVal(files[i][2])>>]
    ELSE dict_set(root_entries(files, dirs, n - 1), dirs[n][1], dirs[n][2])
\* Lines 154-165: one Tree per directory level, stored bottom-up.
RECURSIVE create_tree_recursive(_)
RECURSIVE tree_entries(_, _)
tree_entries(entries_dict, n) ==
    IF n = 0 THEN [entries |-> <<>>, stores |-> <<>>]
    ELSE LET prev == tree_entries(entries_dict, n - 1)
             name == entries_dict[n][1]
             val == entries_dict[n][2]
         IN IF val.t = "str"
            THEN [entries |-> Append(prev.entries, <<"100644", name, val.v>>),
                  stores |-> prev.stores]
            ELSE LET sub == create_tree_recursive(val.v)
                 IN [entries |-> Append(prev.entries, <<"40000", name, sub.hash>>),
                     stores |-> prev.stores \o sub.stores]
create_tree_recursive(entries_dict) ==
    LET built == tree_entries(entries_dict, Len(entries_dict))
        tree == Tree(built.entries)
    IN [hash |-> hash(tree), stores |-> Append(built.stores, tree)]
\* create_tree_from_index: the root tree hash and the objects stored on the
\* way, or a TypeError.
create_tree_from_index(idx) ==
    IF Len(idx) = 0
    THEN [ok |-> TRUE, hash |-> hash(Tree(<<>>)), stores |-> <<Tree(<<>>)>>]
    ELSE LET s == split_index(idx, Len(idx))
         IN IF ~s.ok THEN [ok |-> FALSE, hash |-> hash(Tree(<<>>)), stores |-> <<>>]
            ELSE LET t == create_tree_recursive(
                              root_entries(s.files, s.dirs, Len(s.dirs)))
                 IN [ok |-> TRUE, hash |-> t.hash, stores |-> t.stores]

\* ------------------------------------------------ implementation 2: reading
get_current_branch(head) == IF "ref" \in DOMAIN head THEN head.ref ELSE "HEAD"
get_branch_commit(hs, current_branch) ==
    IF current_branch \in DOMAIN hs THEN <<hs[current_branch]>> ELSE <<>>
\* log: lines 380-399, from the head of the current branch.
log(S, max_count) ==
    log_loop(S.objects, get_branch_commit(S.heads, get_current_branch(S.HEAD)),
             0, max_count)
RECURSIVE get_files_from_tree_recursive(_, _, _)
get_files_from_tree_recursive(objs, tree_hash, prefix) ==
    LET r == load_object(objs, tree_hash)
    IN IF ~r.ok THEN {}
       ELSE LET es == tree_from_content(r.obj.content)
            IN UNION {IF es[i][1] = "100644"
                      THEN {Append(prefix, es[i][2])}
                      ELSE get_files_from_tree_recursive(
                               objs, es[i][3], Append(prefix, es[i][2]))
                      : i \in 1 .. Len(es)}
RECURSIVE build_index_from_tree(_, _, _)
build_index_from_tree(objs, tree_hash, prefix) ==
    LET r == load_object(objs, tree_hash)
    IN IF ~r.ok THEN {}
       ELSE LET es == tree_from_content(r.obj.content)
            IN UNION {IF es[i][1] = "100644"
                      THEN {<<Append(prefix, es[i][2]), es[i][3]>>}
                      ELSE build_index_from_tree(
                               objs, es[i][3], Append(prefix, es[i][2]))
                      : i \in 1 .. Len(es)}
\* restore_tree: the entries written in stored order; an exception leaves the
\* files written so far.
RECURSIVE restore_tree(_, _, _, _)
RECURSIVE restore_entries(_, _, _, _, _)
restore_entries(objs, es, i, path, w) ==
    IF i > Len(es) THEN [ok |-> TRUE, w |-> w]
    ELSE LET p == Append(path, es[i][2])
         IN IF es[i][1] = "100644"
            THEN LET b == load_object(objs, es[i][3])
                 IN IF ~b.ok THEN [ok |-> FALSE, w |-> w]
                    ELSE LET r == write_bytes(w, p, b.obj.content)
                         IN IF ~r.ok THEN r
                            ELSE restore_entries(objs, es, i + 1, path, r.w)
            ELSE LET m == mkdir(w, p)
                 IN IF ~m.ok THEN m
                    ELSE LET s == restore_tree(objs, es[i][3], p, m.w)
                         IN IF ~s.ok THEN s
                            ELSE restore_entries(objs, es, i + 1, path, s.w)
restore_tree(objs, tree_hash, path, w) ==
    LET r == load_object(objs, tree_hash)
    IN IF ~r.ok THEN [ok |-> FALSE, w |-> w]
       ELSE restore_entries(objs, tree_from_content(r.obj.content), 1, path, w)

\* ------------------------------------------------------- running a command
\* The repository and working directory as one value.
Cur ==
    [wd |-> wd, objects |-> objects, index |-> index, heads |-> heads,
     HEAD |-> HEAD, blobs |-> blobs, stage |-> stage,
     commit_tree |-> commit_tree, commit_list |-> commit_list,
     index_json |-> index_json]
Install(S) ==
    /\ wd' = S.wd
    /\ objects' = S.objects
    /\ index' = S.index
    /\ heads' = S.heads
    /\ HEAD' = S.HEAD
    /\ blobs' = S.blobs
    /\ stage' = S.stage
    /\ commit_tree' = S.commit_tree
    /\ commit_list' = S.commit_list
    /\ index_json' = S.index_json

Raise == [k |-> "raise"]

\* One write of implementation 2, made on S.
\* unlink_files is the loop of restore_working_directory lines 295-301: every
\* path of files_to_clear that is a file is unlinked, object files included.
Exec2(ins, S) ==
    CASE ins.k = "store_object" ->
            [ok |-> TRUE, S |-> [S EXCEPT !.objects = store_result(@, ins.obj)]]
      [] ins.k = "save_index" ->
            [ok |-> TRUE, S |-> [S EXCEPT !.index = ins.index]]
      [] ins.k = "set_branch_commit" ->
            [ok |-> TRUE,
             S |-> [S EXCEPT !.heads = map_put(@, ins.branch, ins.commit_hash)]]
      [] ins.k = "unlink_branch" ->
            [ok |-> TRUE, S |-> [S EXCEPT !.heads = map_del(@, ins.branch)]]
      [] ins.k = "write_head" ->
            [ok |-> TRUE, S |-> [S EXCEPT !.HEAD = [ref |-> ins.branch]]]
      [] ins.k = "unlink_files" ->
            [ok |-> TRUE,
             S |-> [S EXCEPT !.wd.files =
                        [q \in (DOMAIN @) \ ins.files |-> @[q]],
                             !.objects =
                        [h \in (DOMAIN @) \ UNION {object_at(q) : q \in ins.files}
                            |-> @[h]]]]
      [] ins.k = "restore_tree" ->
            LET r == restore_tree(S.objects, ins.tree_hash, Root, S.wd)
            IN [ok |-> r.ok, S |-> [S EXCEPT !.wd = r.w]]

store_object(obj) == [k |-> "store_object", obj |-> obj]
save_index(idx) == [k |-> "save_index", index |-> idx]
\* A ref write that lands on the other branch.
set_branch_commit_other(branch, commit_hash) ==
    [k |-> "set_branch_commit",
     branch |-> IF branch = "master" THEN "feature" ELSE "master",
     commit_hash |-> commit_hash]
set_branch_commit(branch, commit_hash) ==
    [k |-> "set_branch_commit", branch |-> branch, commit_hash |-> commit_hash]

\* ---------------------------------------------- implementation 2: commands
\* add_file: the blob stored, then the index rewritten with the path set.
add_file(S, path) ==
    LET blob == Blob(read_bytes(S, path))
    IN [prog |-> <<store_object(blob),
                   save_index(dict_set(S.index, path, hash(blob)))>>,
        ret |-> "added"]

\* add_dir: every regular file beneath the directory, in the order rglob
\* yields them, skipping paths with a ".vc" part; the index is saved once.
RECURSIVE add_dir_loop(_, _, _)
add_dir_loop(S, order, n) ==
    IF n = 0 THEN [stores |-> <<>>, index |-> S.index]
    ELSE LET prev == add_dir_loop(S, order, n - 1)
             blob == Blob(S.wd.files[order[n]])
         IN IF \E i \in 1 .. Len(order[n]) : order[n][i] = ".vc" THEN prev
            ELSE [stores |-> Append(prev.stores, store_object(blob)),
                  index |-> dict_set(prev.index, order[n], hash(blob))]
add_dir(S, order) ==
    LET loop == add_dir_loop(S, order, Len(order))
    IN [prog |-> Append(loop.stores, save_index(loop.index)),
        ret |-> "added"]

\* commit without the check of lines 220-222 (empty index).
commit_skips_empty_check(S, message, author, email, timestamp) ==
    LET built == create_tree_from_index(S.index)
        stores == [i \in 1 .. Len(built.stores) |-> store_object(built.stores[i])]
        current_branch == get_current_branch(S.HEAD)
        parent_commit == get_branch_commit(S.heads, current_branch)
        new_commit == Commit(built.hash, parent_commit, author, email, message,
                             timestamp)
    IN IF ~built.ok THEN [prog |-> <<Raise>>, ret |-> "error"]
       ELSE [prog |-> stores \o
                      <<store_object(new_commit),
                        set_branch_commit(current_branch, hash(new_commit)),
                        save_index(<<>>)>>,
             ret |-> "created"]
\* commit without the check of lines 224-229 (tree equal to the parent's).
commit_skips_tree_check(S, message, author, email, timestamp) ==
    LET built == create_tree_from_index(S.index)
        stores == [i \in 1 .. Len(built.stores) |-> store_object(built.stores[i])]
        current_branch == get_current_branch(S.HEAD)
        parent_commit == get_branch_commit(S.heads, current_branch)
        new_commit == Commit(built.hash, parent_commit, author, email, message,
                             timestamp)
    IN IF ~built.ok THEN [prog |-> <<Raise>>, ret |-> "error"]
       ELSE IF Len(S.index) = 0 THEN [prog |-> stores, ret |-> "nothing"]
       ELSE [prog |-> stores \o
                      <<store_object(new_commit),
                        set_branch_commit(current_branch, hash(new_commit)),
                        save_index(<<>>)>>,
             ret |-> "created"]
\* commit that records no parent and leaves the index as it was.
commit_drops_parent(S, message, author, email, timestamp) ==
    LET built == create_tree_from_index(S.index)
        stores == [i \in 1 .. Len(built.stores) |-> store_object(built.stores[i])]
        current_branch == get_current_branch(S.HEAD)
        parent_commit == get_branch_commit(S.heads, current_branch)
        parent_obj == load_object(S.objects, parent_commit[1])
        new_commit == Commit(built.hash, <<>>, author, email, message, timestamp)
    IN IF ~built.ok THEN [prog |-> <<Raise>>, ret |-> "error"]
       ELSE IF Len(S.index) = 0 THEN [prog |-> stores, ret |-> "nothing"]
       ELSE IF Len(parent_commit) > 0 /\ ~parent_obj.ok
       THEN [prog |-> Append(stores, Raise), ret |-> "error"]
       ELSE IF /\ Len(parent_commit) > 0
               /\ built.hash = commit_from_content(parent_obj.obj.content).tree_hash
       THEN [prog |-> stores, ret |-> "nothing"]
       ELSE [prog |-> stores \o
                      <<store_object(new_commit),
                        set_branch_commit(current_branch, hash(new_commit))>>,
             ret |-> "created"]
\* commit that writes the branch ref before it stores the commit object.
commit_ref_first(S, message, author, email, timestamp) ==
    LET built == create_tree_from_index(S.index)
        stores == [i \in 1 .. Len(built.stores) |-> store_object(built.stores[i])]
        current_branch == get_current_branch(S.HEAD)
        parent_commit == get_branch_commit(S.heads, current_branch)
        parent_obj == load_object(S.objects, parent_commit[1])
        new_commit == Commit(built.hash, parent_commit, author, email, message,
                             timestamp)
    IN IF ~built.ok THEN [prog |-> <<Raise>>, ret |-> "error"]
       ELSE IF Len(S.index) = 0 THEN [prog |-> stores, ret |-> "nothing"]
       ELSE IF Len(parent_commit) > 0 /\ ~parent_obj.ok
       THEN [prog |-> Append(stores, Raise), ret |-> "error"]
       ELSE IF /\ Len(parent_commit) > 0
               /\ built.hash = commit_from_content(parent_obj.obj.content).tree_hash
       THEN [prog |-> stores, ret |-> "nothing"]
       ELSE [prog |-> stores \o
                      <<set_branch_commit(current_branch, hash(new_commit)),
                        store_object(new_commit),
                        save_index(<<>>)>>,
             ret |-> "created"]
\* commit that records as parent a commit that was never stored.
commit_ghost_parent(S, message, author, email, timestamp) ==
    LET built == create_tree_from_index(S.index)
        stores == [i \in 1 .. Len(built.stores) |-> store_object(built.stores[i])]
        current_branch == get_current_branch(S.HEAD)
        parent_commit == get_branch_commit(S.heads, current_branch)
        parent_obj == load_object(S.objects, parent_commit[1])
        ghost == hash(Commit(built.hash, <<>>, "ghost", "", message, timestamp))
        new_commit == Commit(built.hash, <<ghost>>, author, email, message,
                             timestamp)
    IN IF ~built.ok THEN [prog |-> <<Raise>>, ret |-> "error"]
       ELSE IF Len(S.index) = 0 THEN [prog |-> stores, ret |-> "nothing"]
       ELSE IF Len(parent_commit) > 0 /\ ~parent_obj.ok
       THEN [prog |-> Append(stores, Raise), ret |-> "error"]
       ELSE IF /\ Len(parent_commit) > 0
               /\ built.hash = commit_from_content(parent_obj.obj.content).tree_hash
       THEN [prog |-> stores, ret |-> "nothing"]
       ELSE [prog |-> stores \o
                      <<store_object(new_commit),
                        set_branch_commit(current_branch, hash(new_commit)),
                        save_index(<<>>)>>,
             ret |-> "created"]
\* commit: lines 211-245.
commit(S, message, author, email, timestamp) ==
    LET built == create_tree_from_index(S.index)
        stores == [i \in 1 .. Len(built.stores) |-> store_object(built.stores[i])]
        current_branch == get_current_branch(S.HEAD)
        parent_commit == get_branch_commit(S.heads, current_branch)
        parent_obj == load_object(S.objects, parent_commit[1])
        new_commit == Commit(built.hash, parent_commit, author, email, message,
                             timestamp)
    IN IF ~built.ok THEN [prog |-> <<Raise>>, ret |-> "error"]
       ELSE IF Len(S.index) = 0 THEN [prog |-> stores, ret |-> "nothing"]
       ELSE IF Len(parent_commit) > 0 /\ ~parent_obj.ok
       THEN [prog |-> Append(stores, Raise), ret |-> "error"]
       ELSE IF /\ Len(parent_commit) > 0
               /\ built.hash = commit_from_content(parent_obj.obj.content).tree_hash
       THEN [prog |-> stores, ret |-> "nothing"]
       ELSE [prog |-> stores \o
                      <<store_object(new_commit),
                        set_branch_commit(current_branch, hash(new_commit)),
                        save_index(<<>>)>>,
             ret |-> "created"]

\* restore_working_directory as called by checkout, the branch ref read after
\* checkout's own write of it: lines 286-309.
restore_working_directory(S, target_commit_hash, files_to_clear) ==
    LET target_commit_obj == load_object(S.objects, target_commit_hash)
        target_commit == commit_from_content(target_commit_obj.obj.content)
    IN <<[k |-> "unlink_files", files |-> files_to_clear]>> \o
       (IF ~target_commit_obj.ok THEN <<Raise>>
        ELSE <<[k |-> "restore_tree", tree_hash |-> target_commit.tree_hash],
               save_index(<<>>)>>)

\* The test of line 328, branch_file.exists() on heads_dir / branch: true of a
\* ref file, and true of the name "." which is the directory refs/heads.
HeadsDir == "."
branch_file_exists(hs, branch) == branch \in DOMAIN hs \/ branch = HeadsDir
\* checkout that deletes none of the files of the tree being left.
checkout_clears_nothing(S, branch, create_branch) ==
    LET previous_branch == get_current_branch(S.HEAD)
        previous_commit_hash == get_branch_commit(S.heads, previous_branch)
        prev_commit_object == load_object(S.objects, previous_commit_hash[1])
        files_to_clear == {}
        exists == branch_file_exists(S.heads, branch)
        target == IF exists THEN S.heads[branch] ELSE previous_commit_hash[1]
        switch == <<[k |-> "write_head", branch |-> branch]>> \o
                  restore_working_directory(S, target, files_to_clear)
    IN IF branch = HeadsDir
       THEN [prog |-> <<[k |-> "write_head", branch |-> branch], Raise>>,
             ret |-> "error"]
       ELSE IF exists THEN [prog |-> switch, ret |-> "switched"]
       ELSE IF ~create_branch THEN [prog |-> <<>>, ret |-> "not found"]
       ELSE IF Len(previous_commit_hash) = 0
       THEN [prog |-> <<>>, ret |-> "no commits"]
       ELSE [prog |-> <<set_branch_commit(branch, previous_commit_hash[1])>>
                      \o switch,
             ret |-> "switched"]
\* checkout: lines 313-346.  For the name "." HEAD is written (line 343) and
\* get_branch_commit, called by restore_working_directory, raises
\* IsADirectoryError in read_text (line 189).
checkout(S, branch, create_branch) ==
    LET previous_branch == get_current_branch(S.HEAD)
        previous_commit_hash == get_branch_commit(S.heads, previous_branch)
        prev_commit_object == load_object(S.objects, previous_commit_hash[1])
        files_to_clear ==
            IF Len(previous_commit_hash) > 0 /\ prev_commit_object.ok
            THEN get_files_from_tree_recursive(
                     S.objects,
                     commit_from_content(prev_commit_object.obj.content).tree_hash,
                     Root)
            ELSE {}
        exists == branch_file_exists(S.heads, branch)
        target == IF exists THEN S.heads[branch] ELSE previous_commit_hash[1]
        switch == <<[k |-> "write_head", branch |-> branch]>> \o
                  restore_working_directory(S, target, files_to_clear)
    IN IF branch = HeadsDir
       THEN [prog |-> <<[k |-> "write_head", branch |-> branch], Raise>>,
             ret |-> "error"]
       ELSE IF exists THEN [prog |-> switch, ret |-> "switched"]
       ELSE IF ~create_branch THEN [prog |-> <<>>, ret |-> "not found"]
       ELSE IF Len(previous_commit_hash) = 0
       THEN [prog |-> <<>>, ret |-> "no commits"]
       ELSE [prog |-> <<set_branch_commit(branch, previous_commit_hash[1])>>
                      \o switch,
             ret |-> "switched"]

\* branch: lines 350-367 (a name given).
branch(S, branch_name, delete) ==
    LET current_branch == get_current_branch(S.HEAD)
        current_commit == get_branch_commit(S.heads, current_branch)
    IN IF delete
       THEN IF branch_name \in DOMAIN S.heads
            THEN [prog |-> <<[k |-> "unlink_branch", branch |-> branch_name]>>,
                  ret |-> "deleted"]
            ELSE [prog |-> <<>>, ret |-> "not found"]
       ELSE IF Len(current_commit) > 0
       THEN [prog |-> <<set_branch_commit(branch_name, current_commit[1])>>,
             ret |-> "created"]
       ELSE [prog |-> <<>>, ret |-> "no commits"]

\* ------------------------------------------------ implementation 1: values
\* A nested dict of stage.json, a tree file or a snapshot: name -> StrVal (a
\* blob hash or the "__deleted__" mark) or DictVal (a nested dict).
deleted == [lit |-> "__deleted__"]
\* Blob.compute_hash: SHA-1 of the bytes, no header.
compute_hash(content) == [sha1 |-> <<"bytes", content>>]
\* hashlib.sha1(json.dumps(x, sort_keys=True)): key order does not count.
tree_hash_of(stg) == [sha1 |-> <<"stage", stg>>]
commit_hash_of(commit_obj) == [sha1 |-> <<"commit", commit_obj>>]

\* insert_stage lines 66-72 on the loaded dict: setdefault down the parts,
\* then the last part set.  Going through a str raises.
RECURSIVE insert_stage(_, _, _)
insert_stage(curr, parts, h) ==
    IF Len(parts) = 1
    THEN [ok |-> TRUE, v |-> map_put(curr, parts[1], StrVal(h))]
    ELSE LET sub == IF parts[1] \in DOMAIN curr THEN curr[parts[1]]
                    ELSE DictVal(EmptyMap)
         IN IF sub.t # "dict" THEN [ok |-> FALSE, v |-> curr]
            ELSE LET r == insert_stage(sub.v, Tail(parts), h)
                 IN IF r.ok
                    THEN [ok |-> TRUE, v |-> map_put(curr, parts[1], DictVal(r.v))]
                    ELSE [ok |-> FALSE, v |-> curr]

\* deep_merge: lines 150-161.  Merging a dict into a str value raises, except
\* that a dict of nothing but "__deleted__" marks whose names do not occur in
\* the digest string leaves the str as it is (in_digest: whether they occur).
RECURSIVE deep_merge(_, _, _)
merge_value(base_val, val, in_digest) ==
    IF base_val.t = "dict"
    THEN LET r == deep_merge(base_val.v, val.v, in_digest)
         IN [ok |-> r.ok, v |-> DictVal(r.v)]
    ELSE [ok |-> \A k \in DOMAIN val.v : val.v[k] = StrVal(deleted) /\ ~in_digest,
          v |-> base_val]
\* deep_merge that skips a "__deleted__" mark without deleting the key.
deep_merge_keeps(base, new, in_digest) ==
    LET gone == {k \in DOMAIN new : new[k] = StrVal(deleted)}
        set == (DOMAIN new) \ gone
        merged(k) == merge_value(IF k \in DOMAIN base THEN base[k]
                                 ELSE DictVal(EmptyMap), new[k], in_digest)
    IN [ok |-> \A k \in set : new[k].t = "dict" => merged(k).ok,
        v |-> [k \in (DOMAIN base) \cup set |->
                  IF k \in set
                  THEN IF new[k].t = "dict" THEN merged(k).v ELSE new[k]
                  ELSE base[k]]]
deep_merge(base, new, in_digest) ==
    LET gone == {k \in DOMAIN new : new[k] = StrVal(deleted)}
        set == (DOMAIN new) \ gone
        merged(k) == merge_value(IF k \in DOMAIN base THEN base[k]
                                 ELSE DictVal(EmptyMap), new[k], in_digest)
    IN [ok |-> \A k \in set : new[k].t = "dict" => merged(k).ok,
        v |-> [k \in ((DOMAIN base) \ gone) \cup set |->
                  IF k \in set
                  THEN IF new[k].t = "dict" THEN merged(k).v ELSE new[k]
                  ELSE base[k]]]

\* build_snapshot: the tree files of the ancestor chain merged root first.
RECURSIVE build_snapshot(_, _, _, _)
build_snapshot(commits, trees, commit_hash, in_digest) ==
    IF Len(commit_hash) = 0 THEN [ok |-> TRUE, v |-> EmptyMap]
    ELSE LET c == commits[commit_hash[1]]
             prev == build_snapshot(commits, trees, c.parent, in_digest)
         IN IF ~prev.ok THEN prev
            ELSE IF c.tree \in DOMAIN trees
            THEN deep_merge(prev.v, trees[c.tree], in_digest)
            ELSE prev

\* _flatten_tree: the paths of the leaves.
RECURSIVE flatten_tree(_, _)
flatten_tree(tree, prefix) ==
    UNION {IF tree[k].t = "dict" THEN flatten_tree(tree[k].v, Append(prefix, k))
           ELSE {Append(prefix, k)} : k \in DOMAIN tree}

\* restore_from_snapshot: lines 278-289, the names of a dict taken in the
\* order of `order` (a dict's own order is its insertion order).
RECURSIVE restore_from_snapshot(_, _, _, _, _, _)
restore_from_snapshot(bl, tree, root, order, n, w) ==
    IF n > Len(order) THEN [ok |-> TRUE, w |-> w]
    ELSE IF order[n] \notin DOMAIN tree
    THEN restore_from_snapshot(bl, tree, root, order, n + 1, w)
    ELSE LET val == tree[order[n]]
             dest == Append(root, order[n])
         IN IF val.t = "dict"
            THEN LET m == mkdir(w, dest)
                 IN IF ~m.ok THEN m
                    ELSE LET s == restore_from_snapshot(bl, val.v, dest, order, 1, m.w)
                         IN IF ~s.ok THEN s
                            ELSE restore_from_snapshot(bl, tree, root, order, n + 1, s.w)
            ELSE IF val.v \notin DOMAIN bl THEN [ok |-> FALSE, w |-> w]
            ELSE LET r == write_bytes(w, dest, bl[val.v].zlib)
                 IN IF ~r.ok THEN r
                    ELSE restore_from_snapshot(bl, tree, root, order, n + 1, r.w)

\* clear_working_directory: rglob visits a directory before what is in it,
\* so rmdir removes only the directories that were empty.
clear_working_directory(w) ==
    [files |-> EmptyMap,
     dirs |-> {d \in w.dirs :
                 \E q \in (DOMAIN w.files) \cup w.dirs : q # d /\ IsPrefix(d, q)}]

\* log: the parent walk from current_commit.
RECURSIVE log_walk(_, _)
log_walk(commits, cur) ==
    IF Len(cur) = 0 THEN <<>>
    ELSE <<cur[1]>> \o log_walk(commits, commits[cur[1]].parent)

\* One write of implementation 1, made on S.
Exec1(ins, S) ==
    CASE ins.k = "store_blob" ->
            [ok |-> TRUE,
             S |-> [S EXCEPT !.blobs = map_put(@, compute_hash(ins.content),
                                               [zlib |-> ins.content])]]
      [] ins.k = "save_stage" ->
            [ok |-> TRUE, S |-> [S EXCEPT !.stage = ins.stage]]
      [] ins.k = "write_tree" ->
            [ok |-> TRUE,
             S |-> [S EXCEPT !.commit_tree = map_put(@, ins.tree_hash, ins.stage)]]
      [] ins.k = "write_commit_list" ->
            [ok |-> TRUE, S |-> [S EXCEPT !.commit_list = ins.commits]]
      [] ins.k = "write_index_json" ->
            [ok |-> TRUE, S |-> [S EXCEPT !.index_json = ins.head]]
      [] ins.k = "unlink" ->
            [ok |-> TRUE, S |-> [S EXCEPT !.wd = unlink(@, ins.path)]]
      [] ins.k = "clear_working_directory" ->
            [ok |-> TRUE, S |-> [S EXCEPT !.wd = clear_working_directory(@)]]
      [] ins.k = "restore_from_snapshot" ->
            LET r == restore_from_snapshot(S.blobs, ins.snapshot, Root,
                                           ins.order, 1, S.wd)
            IN [ok |-> r.ok, S |-> [S EXCEPT !.wd = r.w]]

save_stage(stg) == [k |-> "save_stage", stage |-> stg]
\* index.json written without the snapshot the command computed.
write_index_json_no_snapshot(head) ==
    [k |-> "write_index_json",
     head |-> [head EXCEPT !.current_snapshot = EmptyMap]]
write_index_json(head) == [k |-> "write_index_json", head |-> head]

\* ---------------------------------------------- implementation 1: commands
\* add_file: staged only when store_blob wrote a new blob (lines 91-104).
add_file1(S, path) ==
    LET content == S.wd.files[path]
        staged == insert_stage(S.stage, path, compute_hash(content))
    IN IF compute_hash(content) \in DOMAIN S.blobs
       THEN [prog |-> <<>>, ret |-> "already added"]
       ELSE [prog |-> <<[k |-> "store_blob", content |-> content],
                        IF staged.ok THEN save_stage(staged.v) ELSE Raise>>,
             ret |-> "added"]

\* add_dir: add_file on every regular file rglob yields, each reading the
\* blobs and the stage the ones before it left (lines 107-110).
RECURSIVE add_dir1_loop(_, _, _)
add_dir1_loop(S, order, n) ==
    IF n = 0 THEN [prog |-> <<>>, blobs |-> S.blobs, stage |-> S.stage, ok |-> TRUE]
    ELSE LET prev == add_dir1_loop(S, order, n - 1)
             one == add_file1([S EXCEPT !.blobs = prev.blobs, !.stage = prev.stage],
                              order[n])
             content == S.wd.files[order[n]]
         IN IF ~prev.ok \/ Len(one.prog) = 0 THEN prev
            ELSE [prog |-> prev.prog \o one.prog,
                  blobs |-> map_put(prev.blobs, compute_hash(content),
                                    [zlib |-> content]),
                  stage |-> IF one.prog[2].k = "raise" THEN prev.stage
                            ELSE one.prog[2].stage,
                  ok |-> one.prog[2].k # "raise"]
add_dir1(S, order) ==
    [prog |-> add_dir1_loop(S, order, Len(order)).prog, ret |-> "added"]

\* rm: the file unlinked, then the "__deleted__" mark staged (lines 228-241).
\* unlink of a directory raises.
rm(S, path) ==
    LET staged == insert_stage(S.stage, path, deleted)
    IN IF ~is_file(S.wd, path) /\ ~is_dir(S.wd, path)
       THEN [prog |-> <<Raise>>, ret |-> "error"]
       ELSE IF is_dir(S.wd, path) THEN [prog |-> <<Raise>>, ret |-> "error"]
       ELSE [prog |-> <<[k |-> "unlink", path |-> path],
                        IF staged.ok THEN save_stage(staged.v) ELSE Raise>>,
             ret |-> "removed"]

\* commit: lines 165-224.
commit1(S, message, author, email, in_digest) ==
    LET tree_hash == tree_hash_of(S.stage)
        head == S.index_json
        parent_commit == head.current_commit
        commit_obj == [tree |-> tree_hash, parent |-> parent_commit,
                       message |-> message, author |-> author, email |-> email]
        commit_hash == commit_hash_of(commit_obj)
        commits == map_put(S.commit_list, commit_hash, commit_obj)
        trees == IF tree_hash \in DOMAIN S.commit_tree THEN S.commit_tree
                 ELSE map_put(S.commit_tree, tree_hash, S.stage)
        new_snapshot == build_snapshot(commits, trees, <<commit_hash>>, in_digest)
        branches == IF Len(head.current_branch) > 0
                    THEN dict_set(head.branches, head.current_branch[1],
                                  <<commit_hash>>)
                    ELSE head.branches
        written ==
            (IF tree_hash \in DOMAIN S.commit_tree THEN <<>>
             ELSE <<[k |-> "write_tree", tree_hash |-> tree_hash,
                     stage |-> S.stage]>>)
            \o <<[k |-> "write_commit_list", commits |-> commits]>>
    IN IF S.stage = EmptyMap THEN [prog |-> <<>>, ret |-> "nothing"]
       ELSE IF ~new_snapshot.ok THEN [prog |-> Append(written, Raise), ret |-> "error"]
       ELSE [prog |-> written \o
                      <<write_index_json(
                            [head EXCEPT !.branches = branches,
                                         !.current_commit = <<commit_hash>>,
                                         !.current_snapshot = new_snapshot.v]),
                        save_stage(EmptyMap)>>,
             ret |-> "created"]

\* branch: lines 245-265.
branch1(S, name) ==
    LET head == S.index_json
    IN IF dict_has(head.branches, name)
       THEN [prog |-> <<>>, ret |-> "exists"]
       ELSE [prog |-> <<write_index_json(
                            [head EXCEPT !.branches =
                                dict_set(@, name, head.current_commit)])>>,
             ret |-> "created"]

\* The working directory replaced by a snapshot: lines 331-332, 354-355.
replace_working_directory(snapshot, order) ==
    <<[k |-> "clear_working_directory"],
      [k |-> "restore_from_snapshot", snapshot |-> snapshot, order |-> order]>>

\* checkout_branch: lines 317-341.
checkout_branch(S, name, order, in_digest) ==
    LET head == S.index_json
        commit_hash == dict_get(head.branches, name)
        snapshot == build_snapshot(S.commit_list, S.commit_tree, commit_hash,
                                   in_digest)
    IN IF ~dict_has(head.branches, name) THEN [prog |-> <<>>, ret |-> "not found"]
       ELSE IF ~snapshot.ok THEN [prog |-> <<Raise>>, ret |-> "error"]
       ELSE [prog |-> replace_working_directory(snapshot.v, order) \o
                      <<write_index_json(
                            [head EXCEPT !.current_branch = <<name>>,
                                         !.current_commit = commit_hash,
                                         !.current_snapshot = snapshot.v])>>,
             ret |-> "switched"]

\* checkout_commit: lines 345-375.  The branch attached is the first one, in
\* the order of the branches dict, whose head is the commit.
checkout_commit(S, commit_hash, order, in_digest) ==
    LET snapshot == build_snapshot(S.commit_list, S.commit_tree, <<commit_hash>>,
                                   in_digest)
        head == S.index_json
        at == {i \in 1 .. Len(head.branches) : head.branches[i][2] = <<commit_hash>>}
        branch_attached ==
            IF at = {} THEN <<>>
            ELSE <<head.branches[CHOOSE i \in at : \A j \in at : i <= j][1]>>
    IN IF commit_hash \notin DOMAIN S.commit_list
       THEN [prog |-> <<>>, ret |-> "not found"]
       ELSE IF ~snapshot.ok THEN [prog |-> <<Raise>>, ret |-> "error"]
       ELSE [prog |-> replace_working_directory(snapshot.v, order) \o
                      <<write_index_json(
                            [head EXCEPT !.current_branch = branch_attached,
                                         !.current_commit = <<commit_hash>>,
                                         !.current_snapshot = snapshot.v])>>,
             ret |-> IF at = {} THEN "detached" ELSE "switched"]

\* --------------------------------------------------------------- execution
Kinds2 == {"store_object", "save_index", "set_branch_commit", "unlink_branch",
           "write_head", "unlink_files", "restore_tree"}
Exec(ins, S) == IF ins.k \in Kinds2 THEN Exec2(ins, S) ELSE Exec1(ins, S)

\* A program run to its end, or to the exception that ends it.
RECURSIVE Run(_, _)
Run(prog, S) ==
    IF Len(prog) = 0 THEN [status |-> "done", S |-> S]
    ELSE IF Head(prog).k = "raise" THEN [status |-> "raised", S |-> S]
    ELSE LET r == Exec(Head(prog), S)
         IN IF ~r.ok THEN [status |-> "raised", S |-> r.S]
            ELSE Run(Tail(prog), r.S)

\* What HEAD names before a command starts.
HeadNow ==
    IF impl = 2 THEN <<HEAD>>
    ELSE <<index_json.current_branch, index_json.current_commit>>
\* No command is under way and none was cut short.
Idle == [op |-> "", status |-> "idle", ret |-> "", pre_head |-> <<>>]

\* A command run as one step.
Do(r) ==
    /\ Len(todo) = 0
    /\ Install(Run(r.prog, Cur).S)
    /\ last' = Idle
    /\ UNCHANGED <<impl, todo>>

\* A command started: its writes are made one by one by Step.
Begin(op, r) ==
    /\ Len(todo) = 0
    /\ LET st == IF Len(r.prog) = 0 THEN "done"
                 ELSE IF Head(r.prog).k = "raise" THEN "raised" ELSE "run"
       IN /\ todo' = IF st = "run" THEN r.prog ELSE <<>>
          /\ last' = [op |-> op, status |-> st, ret |-> r.ret,
                      pre_head |-> HeadNow]
    /\ UNCHANGED <<impl, wd, vars1, vars2>>

\* The next write of the running command.
Step ==
    /\ Len(todo) > 0
    /\ LET r == Exec(Head(todo), Cur)
           rest == Tail(todo)
           st == IF ~r.ok THEN "raised"
                 ELSE IF Len(rest) = 0 THEN "done"
                 ELSE IF Head(rest).k = "raise" THEN "raised" ELSE "run"
       IN /\ Install(r.S)
          /\ todo' = IF st = "run" THEN rest ELSE <<>>
          /\ last' = [last EXCEPT !.status = st]
    /\ UNCHANGED impl

\* The process killed between two writes.
Kill ==
    /\ Len(todo) > 0
    /\ todo' = <<>>
    /\ last' = [last EXCEPT !.status = "killed"]
    /\ UNCHANGED <<impl, wd, vars1, vars2>>

\* ------------------------------------------------- the user's own file edits
UserWrite ==
    /\ Len(todo) = 0
    /\ \E p \in Nodes, c \in Contents :
          /\ write_bytes(wd, p, c).ok
          /\ wd' = write_bytes(wd, p, c).w
    /\ last' = Idle
    /\ UNCHANGED <<impl, vars1, vars2, todo>>
UserDelete ==
    /\ Len(todo) = 0
    /\ \E p \in DOMAIN wd.files : wd' = unlink(wd, p)
    /\ last' = Idle
    /\ UNCHANGED <<impl, vars1, vars2, todo>>
UserMkdir ==
    /\ Len(todo) = 0
    /\ \E p \in DirNodes :
          /\ p \notin wd.dirs
          /\ mkdir(wd, p).ok
          /\ wd' = mkdir(wd, p).w
    /\ last' = Idle
    /\ UNCHANGED <<impl, vars1, vars2, todo>>
UserRmdir ==
    /\ Len(todo) = 0
    /\ \E p \in wd.dirs :
          /\ \A q \in (DOMAIN wd.files) \cup wd.dirs : q = p \/ ~IsPrefix(p, q)
          /\ wd' = [wd EXCEPT !.dirs = @ \ {p}]
    /\ last' = Idle
    /\ UNCHANGED <<impl, vars1, vars2, todo>>

\* ------------------------------------------------------------------ actions
Perms(S) ==
    {s \in [1 .. Cardinality(S) -> S] : \A x \in S : \E i \in DOMAIN s : s[i] = x}
Names == {"a", "d"}
\* The commit objects a command leaves stay within MaxCommits.
WithinCommits2(r) ==
    \A i \in 1 .. Len(r.prog) :
        r.prog[i].k = "set_branch_commit" =>
            Cardinality(commits_of(objects) \cup {r.prog[i].commit_hash})
                <= MaxCommits
WithinCommits1(r) ==
    \A i \in 1 .. Len(r.prog) :
        r.prog[i].k = "write_commit_list" =>
            Cardinality(DOMAIN r.prog[i].commits) <= MaxCommits

Add2 ==
    /\ impl = 2
    /\ \E p \in Nodes \cup {Root} :
          \/ /\ ~is_file(wd, p) /\ ~is_dir(wd, p)
             /\ Do([prog |-> <<Raise>>, ret |-> "error"])
          \/ /\ is_file(wd, p)
             /\ Do(add_file(Cur, p))
          \/ /\ is_dir(wd, p)
             /\ \E order \in Perms(rglob_files(wd, p)) :
                   Do(add_dir(Cur, order))
Commit2 ==
    /\ impl = 2
    /\ \E message \in Messages, timestamp \in Times :
          LET r == commit(Cur, message, "", "", timestamp)
          IN WithinCommits2(r) /\ Do(r)
Checkout2 ==
    /\ impl = 2
    /\ \E b \in BranchNames, create_branch \in BOOLEAN :
          Do(checkout(Cur, b, create_branch))
\* The same call, its writes made one by one.
Checkout2Steps ==
    /\ impl = 2
    /\ \E b \in BranchNames, create_branch \in BOOLEAN :
          Begin("checkout", checkout(Cur, b, create_branch))
Branch2 ==
    /\ impl = 2
    /\ \E b \in BranchNames, delete \in BOOLEAN :
          Do(branch(Cur, b, delete))

\* add of a file or of a directory below the root (a directory that holds
\* no .vc of its own).
Add1 ==
    /\ impl = 1
    /\ \E p \in Nodes :
          \/ /\ ~is_file(wd, p) /\ ~is_dir(wd, p)
             /\ Do([prog |-> <<Raise>>, ret |-> "error"])
          \/ /\ is_file(wd, p)
             /\ Do(add_file1(Cur, p))
          \/ /\ is_dir(wd, p)
             /\ \E order \in Perms(rglob_files(wd, p)) :
                   Do(add_dir1(Cur, order))
Rm1 ==
    /\ impl = 1
    /\ \E p \in Nodes : Do(rm(Cur, p))
Commit1 ==
    /\ impl = 1
    /\ \E message \in Messages, in_digest \in BOOLEAN :
          LET r == commit1(Cur, message, "", "", in_digest)
          IN WithinCommits1(r) /\ Do(r)
Branch1 ==
    /\ impl = 1
    /\ \E b \in BranchNames : Do(branch1(Cur, b))
\* main.py lines 119-123: a target that names a branch is checked out as a
\* branch, any other as a commit.
Checkout1 ==
    /\ impl = 1
    /\ \E order \in Perms(Names), in_digest \in BOOLEAN :
          \/ \E b \in BranchNames :
                /\ dict_has(index_json.branches, b)
                /\ Do(checkout_branch(Cur, b, order, in_digest))
          \/ \E h \in DOMAIN commit_list :
                Do(checkout_commit(Cur, h, order, in_digest))

Init ==
    /\ impl \in {1, 2}
    /\ wd = [files |-> EmptyMap, dirs |-> {}]
    /\ objects = EmptyMap
    /\ index = <<>>
    /\ heads = EmptyMap
    /\ HEAD = [ref |-> "master"]
    /\ blobs = EmptyMap
    /\ stage = EmptyMap
    /\ commit_tree = EmptyMap
    /\ commit_list = EmptyMap
    /\ index_json = [current_branch |-> <<"master">>, current_commit |-> <<>>,
                     branches |-> <<<<"master", <<>>>>>>,
                     current_snapshot |-> EmptyMap]
    /\ todo = <<>>
    /\ last = Idle

Edit == UserWrite \/ UserDelete \/ UserMkdir \/ UserRmdir
Next ==
    \/ Edit
    \/ Add2 \/ Commit2 \/ Checkout2 \/ Branch2
    \/ Add1 \/ Rm1 \/ Commit1 \/ Branch1 \/ Checkout1
Spec == Init /\ [][Next]_vars

\* Implementation 2 with the writes of a checkout made one at a time: the
\* states between two writes are states, and the process can be killed there.
InitSteps == Init /\ impl = 2
NextSteps ==
    \/ Edit
    \/ Add2 \/ Commit2 \/ Branch2
    \/ Checkout2Steps
    \/ Step
    \/ Kill
SpecSteps == InitSteps /\ [][NextSteps]_vars

\* ------------------------------------------------ the tree builder alone
\* create_tree_from_index as a function of the index: the index starts as any
\* dict of at most MaxEntries paths, in any insertion order, and the builder
\* is run on it.  An index that holds both "d/e" and "d/e/x" is one the
\* program reaches: add d/e, replace the file by a directory, add d/e/x.
MaxEntries == 3
TreePaths == {<<"a">>, <<"d">>, <<"d", "e">>, <<"d", "e", "x">>}
IndexInputs ==
    {s \in UNION {[1 .. n -> TreePaths \X {hash(Blob(c)) : c \in Contents}]
                     : n \in 0 .. MaxEntries}
        : \A i, j \in DOMAIN s : i # j => s[i][1] # s[j][1]}
InitTree ==
    /\ impl = 2
    /\ wd = [files |-> EmptyMap, dirs |-> {}]
    /\ objects = EmptyMap
    /\ index \in IndexInputs
    /\ heads = EmptyMap
    /\ HEAD = [ref |-> "master"]
    /\ blobs = EmptyMap
    /\ stage = EmptyMap
    /\ commit_tree = EmptyMap
    /\ commit_list = EmptyMap
    /\ index_json = [current_branch |-> <<"master">>, current_commit |-> <<>>,
                     branches |-> <<<<"master", <<>>>>>>,
                     current_snapshot |-> EmptyMap]
    /\ todo = <<>>
    /\ last = Idle
BuildTree ==
    LET built == create_tree_from_index(index)
    IN Do([prog |-> IF built.ok
                    THEN [i \in 1 .. Len(built.stores) |->
                             store_object(built.stores[i])]
                    ELSE <<Raise>>,
           ret |-> IF built.ok THEN "built" ELSE "error"])
NextTree == BuildTree
SpecTree == InitTree /\ [][NextTree]_vars

\* -------------------------------------------------------------- properties
\* The state a command leaves when run to its end on the current state.
After(r) == Run(r.prog, Cur).S
\* The file at a path: its bytes, or nothing.
FileAt(w, p) == IF is_file(w, p) THEN <<w.files[p]>> ELSE <<>>
\* The (path, blob hash) pairs of the head tree of a branch.
HeadFiles(S, b) ==
    build_index_from_tree(
        S.objects,
        commit_from_content(load_object(S.objects, S.heads[b]).obj.content).tree_hash,
        Root)

\* C1: implementation 2, a checkout that raised or was killed before its
\* steps finished leaves HEAD naming the branch it named when the checkout
\* began.
C1_HeadKeptWhenCheckoutFails ==
    (impl = 2 /\ last.op = "checkout" /\ last.status \in {"raised", "killed"})
        => last.pre_head = <<HEAD>>

\* C2: implementation 2, branches A and B both have a head commit and A is
\* checked out (here with every file of A's head tree holding its committed
\* bytes): after checkout(B) then checkout(A) every path of A's head tree
\* holds the bytes it held before.
C2_CheckoutRoundTrip ==
    impl = 2 =>
        \A A \in DOMAIN heads, B \in DOMAIN heads :
            (/\ HEAD = [ref |-> A]
             /\ \A e \in HeadFiles(Cur, A) :
                    /\ is_file(wd, e[1])
                    /\ hash(Blob(wd.files[e[1]])) = e[2])
            => LET S1 == After(checkout(Cur, B, FALSE))
                   S2 == Run(checkout(S1, A, FALSE).prog, S1).S
               IN \A e \in HeadFiles(Cur, A) :
                      FileAt(S2.wd, e[1]) = FileAt(wd, e[1])

\* C3: implementation 2, create_tree_from_index returns the same root tree
\* hash for every insertion order of one set of (path, blob hash) pairs,
\* prefix paths included.
C3_TreeHashOrderFree ==
    impl = 2 =>
        \A other \in Perms(dict_items(index)) :
            LET x == create_tree_from_index(index)
                y == create_tree_from_index(other)
            IN x.ok /\ y.ok /\ x.hash = y.hash

\* C4: storing a blob of the same bytes a second time returns the hash the
\* first store returned, leaves exactly one stored object of that content and
\* leaves the stored bytes unchanged (implementation 2: store_object;
\* implementation 1: the store made by add).
C4_StoreIdempotent ==
    /\ impl = 2 =>
          \A c \in Contents :
              LET obj == Blob(c)
                  S1 == Exec2(store_object(obj), Cur).S
                  S2 == Exec2(store_object(obj), S1).S
              IN /\ hash(obj) \in DOMAIN S1.objects
                 /\ S2.objects = S1.objects
                 /\ S2.objects[hash(obj)] = serialize(obj)
                 /\ Cardinality({h \in DOMAIN S2.objects :
                        /\ deserialize(S2.objects[h]).obj_type = "blob"
                        /\ deserialize(S2.objects[h]).content = c}) = 1
    /\ impl = 1 =>
          \A p \in DOMAIN wd.files :
              LET S1 == After(add_file1(Cur, p))
                  S2 == Run(add_file1(S1, p).prog, S1).S
              IN /\ compute_hash(wd.files[p]) \in DOMAIN S1.blobs
                 /\ S2.blobs = S1.blobs
                 /\ S2.blobs[compute_hash(wd.files[p])] = [zlib |-> wd.files[p]]
\* A working file whose blob is already stored and staged: adding it again
\* stores the same bytes a second time.
C4_Witness ==
    /\ impl = 2
    /\ \E p \in DOMAIN wd.files :
          /\ hash(Blob(wd.files[p])) \in DOMAIN objects
          /\ dict_has(index, p)
          /\ dict_get(index, p) = hash(Blob(wd.files[p]))

\* C5: in both implementations commit() on an empty staging index creates no
\* commit and changes no branch ref and not HEAD, in every reachable state.
C5_EmptyIndexCommit ==
    /\ (impl = 2 /\ Len(index) = 0) =>
          \A m \in Messages, ts \in Times :
              LET S1 == After(commit(Cur, m, "", "", ts))
              IN /\ commits_of(S1.objects) = commits_of(objects)
                 /\ S1.heads = heads
                 /\ S1.HEAD = HEAD
    /\ (impl = 1 /\ stage = EmptyMap) =>
          \A m \in Messages, in_digest \in BOOLEAN :
              LET S1 == After(commit1(Cur, m, "", "", in_digest))
              IN /\ S1.commit_list = commit_list
                 /\ S1.index_json = index_json
\* commit() has run on an empty index (only it stores the empty tree) in a
\* repository whose two branches have heads of their own, and the index is
\* empty again.
C5_Witness ==
    /\ impl = 2
    /\ Len(index) = 0
    /\ hash(Tree(<<>>)) \in DOMAIN objects
    /\ DOMAIN heads = BranchNames
    /\ heads["master"] # heads["feature"]

\* C6: implementation 2, commit() whose built tree hash equals the tree hash
\* of the current branch's head commit reports nothing to commit, stores no
\* commit object and leaves the branch refs as they were.
C6_NothingToCommit ==
    impl = 2 =>
        LET built == create_tree_from_index(index)
            current_branch == get_current_branch(HEAD)
        IN (/\ built.ok
            /\ current_branch \in DOMAIN heads
            /\ heads[current_branch] \in DOMAIN objects
            /\ built.hash =
                   commit_from_content(
                       load_object(objects, heads[current_branch]).obj.content
                   ).tree_hash)
           => \A m \in Messages, ts \in Times :
                  LET r == commit(Cur, m, "", "", ts)
                  IN /\ r.ret = "nothing"
                     /\ commits_of(After(r).objects) = commits_of(objects)
                     /\ After(r).heads = heads
\* A non-empty index that builds the tree of the head commit (the files were
\* added again unchanged): commit() run here reports nothing to commit.
C6_Witness ==
    /\ impl = 2
    /\ Len(index) > 0
    /\ get_current_branch(HEAD) \in DOMAIN heads
    /\ create_tree_from_index(index).hash =
           commit_from_content(
               load_object(objects, heads[get_current_branch(HEAD)]).obj.content
           ).tree_hash
    /\ \E m \in Messages, ts \in Times :
          /\ commit(Cur, m, "", "", ts).ret = "nothing"
          /\ After(commit(Cur, m, "", "", ts)).index = index

\* C7: implementation 2, a successful commit() stores a commit whose tree is
\* the tree built from the index at call time and whose parents are exactly
\* the previous head of the current branch (none when it had no head); the
\* current branch ref is then the new commit's hash and the index is empty.
C7_CommitRecordsTreeAndParent ==
    impl = 2 =>
        \A m \in Messages, ts \in Times :
            LET r == commit(Cur, m, "", "", ts)
                S1 == After(r)
                current_branch == get_current_branch(HEAD)
            IN r.ret = "created" =>
                  /\ current_branch \in DOMAIN S1.heads
                  /\ is_commit(S1.heads[current_branch])
                  /\ S1.heads[current_branch] \in DOMAIN S1.objects
                  /\ LET c == commit_from_content(
                                  load_object(S1.objects,
                                              S1.heads[current_branch]).obj.content)
                     IN /\ c.tree_hash = create_tree_from_index(index).hash
                        /\ c.tree_hash \in DOMAIN S1.objects
                        /\ c.parent_hashes = get_branch_commit(heads, current_branch)
                  /\ S1.index = <<>>
\* A commit that succeeds on a branch that already has a head: the ref
\* moves to a new commit whose parent is the old head.
C7_Witness ==
    /\ impl = 2
    /\ get_current_branch(HEAD) \in DOMAIN heads
    /\ \E m \in Messages, ts \in Times :
          LET r == commit(Cur, m, "", "", ts)
              b == get_current_branch(HEAD)
          IN /\ r.ret = "created"
             /\ WithinCommits2(r)
             /\ After(r).heads[b] # heads[b]
             /\ commit_from_content(
                    load_object(After(r).objects, After(r).heads[b]).obj.content
                ).parent_hashes = <<heads[b]>>

\* C8: in both implementations a successful commit() leaves every branch ref
\* other than that of the checked-out branch with the value it had.
C8_CommitMovesOnlyCurrentBranch ==
    /\ impl = 2 =>
          \A m \in Messages, ts \in Times :
              LET r == commit(Cur, m, "", "", ts)
                  S1 == After(r)
                  others == BranchNames \ {get_current_branch(HEAD)}
              IN r.ret = "created" =>
                    \A b \in others :
                        get_branch_commit(S1.heads, b) = get_branch_commit(heads, b)
    /\ impl = 1 =>
          \A m \in Messages, in_digest \in BOOLEAN :
              LET r == commit1(Cur, m, "", "", in_digest)
                  S1 == After(r)
                  before == index_json.branches
                  after == S1.index_json.branches
              IN r.ret = "created" =>
                    /\ Len(after) = Len(before)
                    /\ \A i \in 1 .. Len(before) :
                           /\ after[i][1] = before[i][1]
                           /\ <<before[i][1]>> # index_json.current_branch
                                  => after[i] = before[i]
\* A commit that succeeds while the other branch has a ref: the two refs
\* are equal before it and differ after it.
C8_Witness ==
    /\ impl = 2
    /\ DOMAIN heads = BranchNames
    /\ heads["master"] = heads["feature"]
    /\ \E m \in Messages, ts \in Times :
          LET r == commit(Cur, m, "", "", ts)
          IN /\ r.ret = "created"
             /\ WithinCommits2(r)
             /\ After(r).heads["master"] # After(r).heads["feature"]

\* C9: implementation 1, checkout_commit(h) of an existing commit h that is
\* the head of no branch leaves HEAD detached at h (current_branch empty,
\* current_commit h), and log() then lists the chain log() lists after
\* checking out a branch whose head is h.
C9_DetachedCheckout ==
    impl = 1 =>
        \A h \in DOMAIN commit_list :
            (\A i \in 1 .. Len(index_json.branches) :
                 index_json.branches[i][2] # <<h>>)
            => \A order \in Perms(Names), in_digest \in BOOLEAN :
                   LET S1 == After(checkout_commit(Cur, h, order, in_digest))
                   IN /\ S1.index_json.current_branch = <<>>
                      /\ S1.index_json.current_commit = <<h>>
                      /\ log_walk(S1.commit_list, S1.index_json.current_commit)
                            = log_walk(commit_list, <<h>>)

\* C10: in both implementations creating a branch under a name that exists
\* fails and leaves the existing ref at the commit it pointed at.
C10_BranchAlreadyExists ==
    /\ impl = 2 =>
          \A b \in DOMAIN heads :
              LET r == branch(Cur, b, FALSE)
              IN After(r).heads[b] = heads[b] /\ r.ret = "exists"
    /\ impl = 1 =>
          \A b \in dict_keys(index_json.branches) :
              LET r == branch1(Cur, b)
              IN /\ After(r).index_json.branches = index_json.branches
                 /\ r.ret = "exists"

\* C11: in both implementations creating a branch while the repository has no
\* current commit fails and creates no branch ref (branch, and checkout with
\* create_branch in implementation 2).
C11_NoCommitsNoBranch ==
    /\ (impl = 2 /\ get_branch_commit(heads, get_current_branch(HEAD)) = <<>>) =>
          \A b \in BranchNames :
              /\ branch(Cur, b, FALSE).ret = "no commits"
              /\ After(branch(Cur, b, FALSE)).heads = heads
              /\ b \notin DOMAIN heads =>
                    /\ checkout(Cur, b, TRUE).ret = "no commits"
                    /\ After(checkout(Cur, b, TRUE)).heads = heads
    /\ (impl = 1 /\ index_json.current_commit = <<>>) =>
          \A b \in BranchNames :
              /\ branch1(Cur, b).ret # "created"
              /\ After(branch1(Cur, b)).index_json.branches = index_json.branches

\* C12: implementation 2, branch(name, delete) fails and deletes nothing when
\* name is the checked-out branch, and fails (not found) when name is absent.
C12_DeleteRefusesCurrentBranch ==
    impl = 2 =>
        \A b \in BranchNames :
            LET r == branch(Cur, b, TRUE)
            IN /\ b \notin DOMAIN heads =>
                     r.ret = "not found" /\ After(r).heads = heads
               /\ (b \in DOMAIN heads /\ b = get_current_branch(HEAD)) =>
                     r.ret # "deleted" /\ After(r).heads = heads

\* C13: implementation 2, in every reachable state HEAD is symbolic and names
\* a branch that exists in refs/heads (implementation 2 never writes a
\* detached HEAD).  Stated here with the state before the first commit set
\* aside, where init has written HEAD and refs/heads is still empty.
C13_HeadNamesExistingBranch ==
    impl = 2 =>
        \/ commits_of(objects) = {}
        \/ /\ "ref" \in DOMAIN HEAD
           /\ get_current_branch(HEAD) \in DOMAIN heads

\* ------------------------------------------- the writes of a command, one by one
\* Both implementations with the writes of commit and checkout made one at a
\* time (branch makes a single write; add and rm run as one step).
\* A command entered: the writes it will make are still to be made.
Start(r) ==
    /\ Len(todo) = 0
    /\ Len(r.prog) > 0
    /\ todo' = IF Head(r.prog).k = "raise" THEN <<>> ELSE r.prog
    /\ last' = Idle
    /\ UNCHANGED <<impl, wd, vars1, vars2>>
\* The next write of the running command; an exception ends the command.
Write ==
    /\ Len(todo) > 0
    /\ LET r == Exec(Head(todo), Cur)
           rest == Tail(todo)
       IN /\ Install(r.S)
          /\ todo' = IF ~r.ok \/ Len(rest) = 0 \/ Head(rest).k = "raise"
                     THEN <<>> ELSE rest
    /\ last' = Idle
    /\ UNCHANGED impl
Commit2Writes ==
    /\ impl = 2
    /\ \E message \in Messages, timestamp \in Times :
          LET r == commit(Cur, message, "", "", timestamp)
          IN WithinCommits2(r) /\ Start(r)
Checkout2Writes ==
    /\ impl = 2
    /\ \E b \in BranchNames, create_branch \in BOOLEAN :
          Start(checkout(Cur, b, create_branch))
Commit1Writes ==
    /\ impl = 1
    /\ \E message \in Messages, in_digest \in BOOLEAN :
          LET r == commit1(Cur, message, "", "", in_digest)
          IN WithinCommits1(r) /\ Start(r)
Checkout1Writes ==
    /\ impl = 1
    /\ \E order \in Perms(Names), in_digest \in BOOLEAN :
          \/ \E b \in BranchNames :
                /\ dict_has(index_json.branches, b)
                /\ Start(checkout_branch(Cur, b, order, in_digest))
          \/ \E h \in DOMAIN commit_list :
                Start(checkout_commit(Cur, h, order, in_digest))
NextWrites ==
    \/ (Len(todo) = 0 /\ Edit)
    \/ Add2 \/ Branch2 \/ Add1 \/ Rm1 \/ Branch1
    \/ Commit2Writes \/ Checkout2Writes \/ Commit1Writes \/ Checkout1Writes
    \/ Write
SpecWrites == Init /\ [][NextWrites]_vars

RECURSIVE parent_walk2(_, _, _)
parent_walk2(objs, cur, fuel) ==
    IF Len(cur) = 0 THEN [seen |-> <<>>, ended |-> TRUE]
    ELSE IF fuel = 0 \/ cur[1] \notin DOMAIN objs
    THEN [seen |-> <<>>, ended |-> FALSE]
    ELSE LET c == commit_from_content(load_object(objs, cur[1]).obj.content)
             first == IF Len(c.parent_hashes) = 0 THEN <<>>
                      ELSE <<c.parent_hashes[1]>>
             next == parent_walk2(objs, first, fuel - 1)
         IN [seen |-> <<cur[1]>> \o next.seen, ended |-> next.ended]
RECURSIVE parent_walk1(_, _, _)
parent_walk1(commits, cur, fuel) ==
    IF Len(cur) = 0 THEN [seen |-> <<>>, ended |-> TRUE]
    ELSE IF fuel = 0 \/ cur[1] \notin DOMAIN commits
    THEN [seen |-> <<>>, ended |-> FALSE]
    ELSE LET next == parent_walk1(commits, commits[cur[1]].parent, fuel - 1)
         IN [seen |-> <<cur[1]>> \o next.seen, ended |-> next.ended]
NoRepeat(s) == \A i, j \in 1 .. Len(s) : i # j => s[i] # s[j]

MaxLogCount == 3
MaxCounts == -1 .. MaxLogCount
Min(a, b) == IF a < b THEN a ELSE b
\* The first parent recorded in a stored commit, as a sequence of 0 or 1.
first_parent(objs, h) ==
    LET c == commit_from_content(load_object(objs, h).obj.content)
    IN IF Len(c.parent_hashes) > 0 THEN <<c.parent_hashes[1]>> ELSE <<>>

\* C16: in implementation 2, log(max_count) emits the parent chain from the
\* head of the current branch, head first, each commit the first parent of
\* the one before, and exactly min(max_count, chain length) commits, none
\* when max_count <= 0.
C16_LogEmitsChainPrefix ==
    impl = 2 =>
      \A max_count \in MaxCounts :
        LET out == log(Cur, max_count)
            head == get_branch_commit(heads, get_current_branch(HEAD))
            chain == parent_walk2(objects, head,
                                  Cardinality(commits_of(objects))).seen
        IN /\ max_count <= 0 => out = <<>>
           /\ max_count > 0 => Len(out) = Min(max_count, Len(chain))
           /\ Len(out) > 0 => <<out[1]>> = head
           /\ \A i \in 1 .. Len(out) - 1 :
                  <<out[i + 1]>> = first_parent(objects, out[i])
\* A chain of two commits, cut to one commit by max_count = 1.
C16_Witness ==
    /\ impl = 2
    /\ Len(log(Cur, 1)) = 1
    /\ Len(log(Cur, MaxLogCount)) = MaxCommits


\* The targets tried by a plain checkout: the branch names and ".".
Targets2 == BranchNames \cup {HeadsDir}
\* A digest that names no commit of implementation 1.
NoCommit1 ==
    commit_hash_of([tree |-> tree_hash_of(EmptyMap), parent |-> <<>>,
                    message |-> "none", author |-> "", email |-> ""])
Unchanged(T) ==
    /\ T.HEAD = HEAD /\ T.heads = heads /\ T.index = index /\ T.wd = wd
    /\ T.index_json = index_json /\ T.stage = stage

\* C17: in both implementations a checkout whose target names neither an
\* existing branch nor an existing commit fails and leaves HEAD, every branch
\* ref, the staging index and the working directory unchanged.
C17_UnknownTargetChangesNothing ==
    /\ impl = 2 =>
          \A t \in Targets2 :
              t \notin DOMAIN heads =>
                  LET r == checkout(Cur, t, FALSE)
                  IN r.ret # "switched" /\ Unchanged(After(r))
    /\ impl = 1 =>
          \A order \in Perms(Names), in_digest \in BOOLEAN :
              /\ NoCommit1 \notin DOMAIN commit_list
              /\ LET r == checkout_commit(Cur, NoCommit1, order, in_digest)
                 IN r.ret = "not found" /\ Unchanged(After(r))
              /\ \A b \in BranchNames :
                    ~dict_has(index_json.branches, b) =>
                        LET r == checkout_branch(Cur, b, order, in_digest)
                        IN r.ret = "not found" /\ Unchanged(After(r))


\* The value staged at a path in the nested stage of implementation 1: the
\* hash (or the deleted mark) in a sequence, or nothing.
RECURSIVE StagedAt(_, _)
StagedAt(stg, parts) ==
    IF parts[1] \notin DOMAIN stg THEN <<>>
    ELSE IF Len(parts) = 1
    THEN (IF stg[parts[1]].t = "str" THEN <<stg[parts[1]].v>> ELSE <<>>)
    ELSE IF stg[parts[1]].t # "dict" THEN <<>>
    ELSE StagedAt(stg[parts[1]].v, Tail(parts))

\* C18: in both implementations, after add(path) of an existing regular file
\* the staging index maps the path to the hash of the file's current bytes,
\* also when a blob with the same content is already stored.
C18_AddStagesCurrentBytes ==
    \A p \in DOMAIN wd.files :
        /\ impl = 2 =>
              LET T == After(add_file(Cur, p))
              IN /\ dict_has(T.index, p)
                 /\ dict_get(T.index, p) = hash(Blob(wd.files[p]))
        /\ (impl = 1 /\ compute_hash(wd.files[p]) \in DOMAIN blobs) =>
              LET T == After(add_file1(Cur, p))
              IN StagedAt(T.stage, p) = <<compute_hash(wd.files[p])>>


\* The files init of implementation 1 creates in the control directory
\* (lines 26-41); rglob("*") on the repository root yields them, with the
\* blob and commit_tree files, before or among the user's files.
ControlNames == {"stage.json", "commit_list.json", "index.json"}
\* The bytes of a control file, up to equality: stage.json and
\* commit_list.json are both "{}" when empty, otherwise the three texts differ.
control_bytes(S, stg, f) ==
    IF f = "stage.json" THEN (IF DOMAIN stg = {} THEN "{}" ELSE "stage")
    ELSE IF f = "commit_list.json"
    THEN (IF DOMAIN S.commit_list = {} THEN "{}" ELSE "commit_list")
    ELSE "index"
\* add_file (lines 91-104) on the control files in the order rglob yields
\* them: staged when store_blob wrote a new blob.  seen holds the bytes
\* stored by this loop; the blob store holds no JSON text before it.
RECURSIVE add_control1(_, _, _)
add_control1(S, order, n) ==
    IF n = 0 THEN [stage |-> S.stage, seen |-> {}]
    ELSE LET prev == add_control1(S, order, n - 1)
             bytes == control_bytes(S, prev.stage, order[n])
         IN IF bytes \in prev.seen THEN prev
            ELSE [stage |-> insert_stage(prev.stage, <<".vc", order[n]>>,
                                         [sha1 |-> <<"json", bytes>>]).v,
                  seen |-> prev.seen \cup {bytes}]
\* add(".") of implementation 1: add_dir on the root (lines 107-110), the
\* control files first and then the user's files; the stage it leaves.
add_root1(S, control_order, order) ==
    LET staged == add_control1(S, control_order, Len(control_order)).stage
        T == [S EXCEPT !.stage = staged]
    IN Run(add_dir1(T, order).prog, T).S.stage

\* C19: in both implementations, after add of any directory, the repository
\* root included, no staged path lies under .vc and every other regular file
\* beneath the directory is staged.
C19_AddDirSkipsControlDir ==
    /\ impl = 2 =>
          \A p \in wd.dirs \cup {Root} :
              \A order \in Perms(rglob_files(wd, p)) :
                  LET T == After(add_dir(Cur, order))
                  IN /\ \A q \in rglob_files(wd, p) : dict_has(T.index, q)
                     /\ \A q \in dict_keys(T.index) : q[1] # ".vc"
    /\ impl = 1 =>
          \A control_order \in Perms(ControlNames) :
              \A order \in Perms(rglob_files(wd, Root)) :
                  \A q \in flatten_tree(add_root1(Cur, control_order, order), Root) :
                      q[1] # ".vc"


\* get_all_files: lines 421-431, every regular file under the repository
\* path that has no ".git" part: the user's files and the files init created
\* in .vc (object and ref files are left out).
get_all_files(S) ==
    {q \in (DOMAIN S.wd.files) \cup {<<".vc", "HEAD">>, <<".vc", "index">>} :
        \A i \in 1 .. Len(q) : q[i] # ".git"}
\* status: lines 435-515, the four lists it prints, as sets.
status(S) ==
    LET current_branch == get_current_branch(S.HEAD)
        current_commit_hash == get_branch_commit(S.heads, current_branch)
        commit_obj == load_object(S.objects, current_commit_hash[1])
        last_index_files ==
            IF Len(current_commit_hash) > 0 /\ commit_obj.ok
            THEN build_index_from_tree(
                     S.objects,
                     commit_from_content(commit_obj.obj.content).tree_hash,
                     Root)
            ELSE {}
        last_keys == {e[1] : e \in last_index_files}
        last_get(p) == (CHOOSE e \in last_index_files : e[1] = p)[2]
        working_files == {q \in get_all_files(S) : q \in DOMAIN S.wd.files}
        working_hash(p) == hash(Blob(S.wd.files[p]))
        index_keys == dict_keys(S.index)
    IN [staged_files |->
            {<<"new file", p>> : p \in index_keys \ last_keys} \cup
            {<<"modified", p>> :
                p \in {q \in index_keys \cap last_keys :
                          dict_get(S.index, q) # last_get(q)}},
        unstaged_files |->
            {p \in working_files \cap index_keys :
                working_hash(p) # dict_get(S.index, p)},
        untracked_files |->
            {p \in get_all_files(S) : p \notin index_keys /\ p \notin last_keys},
        deleted_files |-> {p \in index_keys : p \notin get_all_files(S)}]

\* C20: in implementation 2 the four lists computed by status (staged for
\* commit, not staged, untracked, deleted) are pairwise disjoint.
C20_StatusListsDisjoint ==
    impl = 2 =>
        LET st == status(Cur)
            staged == {e[2] : e \in st.staged_files}
        IN /\ staged \cap st.unstaged_files = {}
           /\ staged \cap st.untracked_files = {}
           /\ staged \cap st.deleted_files = {}
           /\ st.unstaged_files \cap st.untracked_files = {}
           /\ st.unstaged_files \cap st.deleted_files = {}
           /\ st.untracked_files \cap st.deleted_files = {}


\* The paths of last_index_files as status computes it (lines 441-449): the
\* tree of the head commit of the current branch, empty when there is none.
last_index_paths(S) ==
    LET current_commit_hash ==
            get_branch_commit(S.heads, get_current_branch(S.HEAD))
        commit_obj == load_object(S.objects, current_commit_hash[1])
    IN IF Len(current_commit_hash) > 0 /\ commit_obj.ok
       THEN {e[1] : e \in build_index_from_tree(
                              S.objects,
                              commit_from_content(commit_obj.obj.content).tree_hash,
                              Root)}
       ELSE {}

\* C21: in implementation 2, status lists a path as deleted exactly when the
\* path is in the staging index or in the head commit's tree and is absent
\* from the working directory.
C21_DeletedListedExactly ==
    impl = 2 =>
        status(Cur).deleted_files =
            {p \in dict_keys(index) \cup last_index_paths(Cur) :
                p \notin DOMAIN wd.files}


\* ------------------------------------------------ ref files, write by write
\* Path.write_text and open(path, "w") open the file with O_TRUNC and write
\* the text afterwards: between the two the file exists and is empty.
EmptyRef == [sha1 |-> <<"">>]
EmptyHead == [empty |-> TRUE]
EmptyJson == [empty |-> TRUE]
\* The program of a command with each write of a branch ref, of HEAD and of
\* index.json split into the open that truncates and the write.
RECURSIVE syscalls(_)
syscalls(prog) ==
    IF Len(prog) = 0 THEN <<>>
    ELSE LET ins == Head(prog)
         IN (IF ins.k = "set_branch_commit"
             THEN <<[k |-> "truncate_branch", branch |-> ins.branch], ins>>
             ELSE IF ins.k = "write_head" THEN <<[k |-> "truncate_head"], ins>>
             ELSE IF ins.k = "write_index_json"
             THEN <<[k |-> "truncate_index_json"], ins>>
             ELSE <<ins>>) \o syscalls(Tail(prog))
ExecRef(ins, S) ==
    CASE ins.k = "truncate_branch" ->
            [ok |-> TRUE, S |-> [S EXCEPT !.heads = map_put(@, ins.branch, EmptyRef)]]
      [] ins.k = "truncate_head" ->
            [ok |-> TRUE, S |-> [S EXCEPT !.HEAD = EmptyHead]]
      [] ins.k = "truncate_index_json" ->
            [ok |-> TRUE, S |-> [S EXCEPT !.index_json = EmptyJson]]
      [] OTHER -> Exec(ins, S)
\* The next system call of the running command.
WriteRef ==
    /\ Len(todo) > 0
    /\ LET r == ExecRef(Head(todo), Cur)
           rest == Tail(todo)
       IN /\ Install(r.S)
          /\ todo' = IF ~r.ok \/ Len(rest) = 0 \/ Head(rest).k = "raise"
                     THEN <<>> ELSE rest
    /\ last' = Idle
    /\ UNCHANGED impl
StartRef(r) == Start([prog |-> syscalls(r.prog), ret |-> r.ret])
Commit2Ref ==
    /\ Len(todo) = 0
    /\ impl = 2
    /\ \E message \in Messages, timestamp \in Times :
          LET r == commit(Cur, message, "", "", timestamp)
          IN WithinCommits2(r) /\ StartRef(r)
Checkout2Ref ==
    /\ Len(todo) = 0
    /\ impl = 2
    /\ \E b \in BranchNames, create_branch \in BOOLEAN :
          StartRef(checkout(Cur, b, create_branch))
Commit1Ref ==
    /\ Len(todo) = 0
    /\ impl = 1
    /\ \E message \in Messages, in_digest \in BOOLEAN :
          LET r == commit1(Cur, message, "", "", in_digest)
          IN WithinCommits1(r) /\ StartRef(r)
NextRef ==
    \/ (Len(todo) = 0 /\ Edit)
    \/ (Len(todo) = 0 /\ Add2)
    \/ (Len(todo) = 0 /\ Add1)
    \/ Commit2Ref \/ Checkout2Ref \/ Commit1Ref
    \/ WriteRef
SpecRef == Init /\ [][NextRef]_vars

\* C22: in both implementations, whenever another process reads a branch ref
\* or HEAD while a command is updating it, the file holds the complete old
\* value or the complete new value, never an empty or partly written record.
C22_RefReadsOldOrNew ==
    /\ impl = 2 =>
          /\ HEAD # EmptyHead
          /\ \A b \in DOMAIN heads : heads[b] # EmptyRef
    /\ impl = 1 => index_json # EmptyJson


\* ------------------------------------------------- two add invocations at once
\* Two processes each run add of one file; todo holds one record per process:
\* the path, the position in add_file and the index (or stage) the process
\* has loaded.  Implementation 2 add_file, lines 63-75: read_bytes and
\* store_object, load_index, save_index.  Implementation 1 add_file, lines
\* 91-104, with insert_stage, lines 60-74: store_blob, load_stage, save_stage.
AddPaths == {<<"a">>, <<"d", "a">>}
InitAdd ==
    /\ impl \in {1, 2}
    /\ \E c \in [AddPaths -> Contents] :
          wd = [files |-> c, dirs |-> {<<"d">>}]
    /\ objects = EmptyMap
    /\ index = <<>>
    /\ heads = EmptyMap
    /\ HEAD = [ref |-> "master"]
    /\ blobs = EmptyMap
    /\ stage = EmptyMap
    /\ commit_tree = EmptyMap
    /\ commit_list = EmptyMap
    /\ index_json = [current_branch |-> <<"master">>, current_commit |-> <<>>,
                     branches |-> <<<<"master", <<>>>>>>,
                     current_snapshot |-> EmptyMap]
    /\ todo = <<>>
    /\ last = Idle
add_process(path) ==
    [path |-> path, pc |-> "store", new |-> TRUE,
     loaded |-> IF impl = 2 THEN <<>> ELSE EmptyMap]
\* Two invocations of add, for two different files, start.
StartAdds ==
    /\ Len(todo) = 0
    /\ \E p \in AddPaths, q \in AddPaths :
          /\ p # q
          /\ is_file(wd, p) /\ is_file(wd, q)
          /\ todo' = <<add_process(p), add_process(q)>>
    /\ UNCHANGED <<impl, wd, vars1, vars2, last>>
\* The file's bytes change between two rounds.
WriteAdd ==
    /\ Len(todo) = 0
    /\ \E p \in AddPaths, c \in Contents :
          /\ wd.files[p] # c
          /\ wd' = write_bytes(wd, p, c).w
    /\ UNCHANGED <<impl, vars1, vars2, todo, last>>
\* One step of one of the two processes.
AddStep ==
    /\ Len(todo) = 2
    /\ \E i \in 1 .. 2 :
          LET me == todo[i]
              content == wd.files[me.path]
          IN \/ /\ me.pc = "store" /\ impl = 2
                /\ objects' = Exec2(store_object(Blob(content)), Cur).S.objects
                /\ todo' = [todo EXCEPT ![i].pc = "load"]
                /\ UNCHANGED <<index, stage, blobs>>
             \/ /\ me.pc = "store" /\ impl = 1
                /\ IF compute_hash(content) \in DOMAIN blobs
                   THEN /\ todo' = [todo EXCEPT ![i].pc = "done", ![i].new = FALSE]
                        /\ UNCHANGED blobs
                   ELSE /\ todo' = [todo EXCEPT ![i].pc = "load"]
                        /\ blobs' = Exec1([k |-> "store_blob", content |-> content],
                                          Cur).S.blobs
                /\ UNCHANGED <<index, stage, objects>>
             \/ /\ me.pc = "load"
                /\ todo' = [todo EXCEPT ![i].pc = "save",
                                        ![i].loaded = IF impl = 2 THEN index
                                                      ELSE stage]
                /\ UNCHANGED <<index, stage, objects, blobs>>
             \/ /\ me.pc = "save" /\ impl = 2
                /\ index' = dict_set(me.loaded, me.path, hash(Blob(content)))
                /\ todo' = [todo EXCEPT ![i].pc = "done"]
                /\ UNCHANGED <<stage, objects, blobs>>
             \/ /\ me.pc = "save" /\ impl = 1
                /\ stage' = insert_stage(me.loaded, me.path,
                                         compute_hash(content)).v
                /\ todo' = [todo EXCEPT ![i].pc = "done"]
                /\ UNCHANGED <<index, objects, blobs>>
    /\ UNCHANGED <<impl, wd, heads, HEAD, commit_tree, commit_list, index_json,
                   last>>
\* Both invocations have returned.
AddsDone == Len(todo) = 2 /\ \A i \in 1 .. 2 : todo[i].pc = "done"
FinishAdds ==
    /\ AddsDone
    /\ todo' = <<>>
    /\ UNCHANGED <<impl, wd, vars1, vars2, last>>
NextAdd == StartAdds \/ WriteAdd \/ AddStep \/ FinishAdds
SpecAdd == InitAdd /\ [][NextAdd]_vars

\* C23: in both implementations, when two add invocations for different paths
\* run in any interleaving and both return, the staging index holds both
\* paths with their blob hashes.  (For implementation 1 the paths whose blob
\* was new, which are the ones add_file stages.)
C23_NoLostUpdate ==
    AddsDone =>
        \A i \in 1 .. 2 :
            LET p == todo[i].path
            IN /\ impl = 2 =>
                    /\ dict_has(index, p)
                    /\ dict_get(index, p) = hash(Blob(wd.files[p]))
               /\ (impl = 1 /\ todo[i].new) =>
                    StagedAt(stage, p) = <<compute_hash(wd.files[p])>>


\* The repository with one object file lost from the object store.
without_object(S, h) == [S EXCEPT !.objects = map_del(@, h)]

\* C24: in implementation 2, when the head commit of the current branch or
\* its tree is missing from the object store, checkout aborts with an error
\* and changes nothing, and status does not go on with the tree taken as
\* empty (no committed file reported as new or untracked).
C24_MissingObjectAborts ==
    impl = 2 =>
        LET prev == get_branch_commit(heads, get_current_branch(HEAD))
        IN Len(prev) > 0 =>
            \A h \in {prev[1],
                      commit_from_content(
                          load_object(objects, prev[1]).obj.content).tree_hash} :
                LET S == without_object(Cur, h)
                IN /\ \A b \in DOMAIN heads :
                        LET T == Run(checkout(S, b, FALSE).prog, S)
                        IN T.status = "raised" /\ T.S = S
                   /\ \A p \in last_index_paths(Cur) :
                        /\ p \notin status(S).untracked_files
                        /\ <<"new file", p>> \notin status(S).staged_files


\* The blob objects of the user's contents that are stored.
stored_blobs(S) == {h \in DOMAIN S.objects : h \in {hash(Blob(c)) : c \in Contents}}
\* Every object of S is in T with the same bytes.
ObjectsKept(S, T) ==
    \A g \in DOMAIN S.objects :
        g \in DOMAIN T.objects /\ T.objects[g] = S.objects[g]

\* C25: in implementation 2 the object store is append-only under every
\* sequence of add, commit, branch and checkout, add of a file path inside
\* .vc included: a stored object is never deleted and its bytes never change.
\* Tried: add of the file of a stored blob, commit, checkout of another
\* branch (whose tree holds no path inside .vc).
C25_ObjectStoreAppendOnly ==
    impl = 2 =>
        \A h \in stored_blobs(Cur), b \in (DOMAIN heads) \ {get_current_branch(HEAD)} :
            LET S1 == After(add_file(Cur, object_path(h)))
                S2 == Run(commit(S1, "m", "", "", 1).prog, S1).S
                S3 == Run(checkout(S2, b, FALSE).prog, S2).S
            IN ObjectsKept(Cur, S1) /\ ObjectsKept(S1, S2) /\ ObjectsKept(S2, S3)
\* The writes of the commands of the model, taken on a repository whose trees
\* hold no path inside .vc, keep every stored object.
StepsKeepObjects ==
    [][\A g \in DOMAIN objects : g \in DOMAIN objects' /\ objects'[g] = objects[g]]_vars


\* The files implementation 1 tracks: the paths of the current snapshot and
\* the paths staged with a blob hash.
tracked1(S) ==
    flatten_tree(S.index_json.current_snapshot, Root) \cup
    {p \in flatten_tree(S.stage, Root) : StagedAt(S.stage, p) # <<deleted>>}
\* rm(path) followed by commit: the states after each, and how they ended.
rm_then_commit(S, p, in_digest) ==
    LET removed == Run(rm(S, p).prog, S)
        c == commit1(removed.S, "m", "", "", in_digest)
        committed == Run(c.prog, removed.S)
    IN [removed |-> removed, ret |-> c.ret, committed |-> committed]

\* C26: in implementation 1, rm(path) of an existing tracked file deletes the
\* file from the working directory, and after the next successful commit the
\* path is absent from the new commit's snapshot, so a later checkout of that
\* commit does not write the file.
C26_RmDropsPathFromSnapshot ==
    impl = 1 =>
        \A p \in (DOMAIN wd.files) \cap tracked1(Cur), in_digest \in BOOLEAN :
            LET r == rm_then_commit(Cur, p, in_digest)
                T == r.committed.S
            IN r.removed.status = "done" =>
                /\ ~is_file(r.removed.S.wd, p)
                /\ (r.ret = "created" /\ r.committed.status = "done") =>
                      /\ p \notin flatten_tree(T.index_json.current_snapshot, Root)
                      /\ \A order \in Perms(Names), d \in BOOLEAN :
                            LET k == checkout_commit(T, T.index_json.current_commit[1],
                                                     order, d)
                            IN ~is_file(Run(k.prog, T).S.wd, p)
\* A committed file that is on disk, whose rm and commit both succeed.
C26_Witness ==
    /\ impl = 1
    /\ \E p \in DOMAIN wd.files :
          /\ p \in flatten_tree(index_json.current_snapshot, Root)
          /\ rm_then_commit(Cur, p, TRUE).removed.status = "done"
          /\ rm_then_commit(Cur, p, TRUE).ret = "created"
          /\ rm_then_commit(Cur, p, TRUE).committed.status = "done"


\* ------------------------------------------ two files side by side
\* The commands on a working directory of two files that do not lie under
\* one another, so that a checkout can meet a file its trees do not hold.
SwitchPaths == {<<"a">>, <<"d">>}
WriteSwitch ==
    /\ Len(todo) = 0
    /\ \E p \in SwitchPaths, c \in Contents :
          /\ write_bytes(wd, p, c).ok
          /\ wd' = write_bytes(wd, p, c).w
    /\ last' = Idle
    /\ UNCHANGED <<impl, vars1, vars2, todo>>
DeleteSwitch ==
    /\ Len(todo) = 0
    /\ \E p \in SwitchPaths :
          /\ is_file(wd, p)
          /\ wd' = unlink(wd, p)
    /\ last' = Idle
    /\ UNCHANGED <<impl, vars1, vars2, todo>>
AddSwitch2 ==
    /\ impl = 2
    /\ \E p \in SwitchPaths : is_file(wd, p) /\ Do(add_file(Cur, p))
AddSwitch1 ==
    /\ impl = 1
    /\ \E p \in SwitchPaths : is_file(wd, p) /\ Do(add_file1(Cur, p))
NextSwitch ==
    \/ WriteSwitch \/ DeleteSwitch
    \/ AddSwitch2 \/ Commit2 \/ Checkout2 \/ Branch2
    \/ AddSwitch1 \/ Commit1 \/ Branch1 \/ Checkout1
SpecSwitch == Init /\ [][NextSwitch]_vars

\* The file paths of the tree checked out: implementation 2, the head tree
\* of the current branch; implementation 1, current_snapshot.
tree_paths(S) ==
    IF impl = 2 THEN last_index_paths(S)
    ELSE flatten_tree(S.index_json.current_snapshot, Root)
\* The checkouts that can be asked for in the current state, as programs.
Checkouts ==
    IF impl = 2
    THEN {checkout(Cur, b, c) : b \in BranchNames, c \in BOOLEAN}
    ELSE {checkout_branch(Cur, b, order, d) :
              b \in {x \in BranchNames : dict_has(index_json.branches, x)},
              order \in Perms(Names), d \in BOOLEAN}
         \cup {checkout_commit(Cur, h, order, d) :
                  h \in DOMAIN commit_list, order \in Perms(Names), d \in BOOLEAN}
\* A checkout that went through: it switched and none of its writes raised.
Succeeds(r) ==
    r.ret \in {"switched", "detached"} /\ Run(r.prog, Cur).status = "done"

\* C27: in both implementations, after a successful checkout no file exists
\* at a path that is in OLD, the tree checked out before the call, and not in
\* NEW, the tree of the destination commit.
C27_StaleFilesDeleted ==
    \A r \in Checkouts :
        Succeeds(r) =>
            \A p \in tree_paths(Cur) \ tree_paths(After(r)) :
                ~is_file(After(r).wd, p)
\* A successful checkout of implementation 2 that leaves a tree one of whose
\* files is on disk and is not in the destination tree.
C27_Witness ==
    /\ impl = 2
    /\ \E r \in Checkouts :
          /\ Succeeds(r)
          /\ \E p \in tree_paths(Cur) \ tree_paths(After(r)) : is_file(wd, p)

\* C28: in both implementations, after every successful checkout the staging
\* index is empty, whatever it contained before the call (implementation 2:
\* the index file; implementation 1: stage.json).
C28_CheckoutClearsIndex ==
    \A r \in Checkouts :
        Succeeds(r) =>
            IF impl = 2 THEN After(r).index = <<>>
            ELSE After(r).stage = EmptyMap

\* C29: in implementation 2, a file path in the tree of the current branch's
\* head commit is still in the tree of the next successful commit on that
\* branch when only other paths were added in between (the path itself is
\* not in the index).
C29_CommittedPathsCarriedOver ==
    impl = 2 =>
        \A message \in Messages, timestamp \in Times :
            LET r == commit(Cur, message, "", "", timestamp)
            IN (r.ret = "created" /\ Run(r.prog, Cur).status = "done") =>
                   \A p \in last_index_paths(Cur) \ dict_keys(index) :
                       p \in last_index_paths(After(r))

\* C30: in both implementations, a checkout leaves untouched every working
\* file whose path is neither in OLD, the tree checked out before the call,
\* nor in NEW, the destination tree: the file is still there with the same
\* bytes.
C30_UntrackedFilesUntouched ==
    \A r \in Checkouts :
        Succeeds(r) =>
            \A p \in (DOMAIN wd.files) \
                     (tree_paths(Cur) \cup tree_paths(After(r))) :
                FileAt(After(r).wd, p) = FileAt(wd, p)

\* C31: in implementation 2, status run right after a successful commit that
\* staged every working file outside .vc, no file changed since, reports a
\* clean working tree: each of the four lists is empty, and no path under
\* .vc is listed as untracked.
C31_StatusCleanAfterCommit ==
    impl = 2 =>
        \A message \in Messages, timestamp \in Times :
            LET r == commit(Cur, message, "", "", timestamp)
                all_staged ==
                    /\ dict_keys(index) = DOMAIN wd.files
                    /\ \A p \in DOMAIN wd.files :
                           dict_get(index, p) = hash(Blob(wd.files[p]))
                st == status(After(r))
            IN (all_staged /\ r.ret = "created"
                           /\ Run(r.prog, Cur).status = "done") =>
                   /\ st.staged_files = {}
                   /\ st.unstaged_files = {}
                   /\ st.untracked_files = {}
                   /\ st.deleted_files = {}

\* --------------------------------------------- two commit invocations at once
\* Two processes of implementation 2 each run commit (lines 211-245); todo
\* holds one record per process: its message, its position in commit, the
\* tree hash and the parent it has read, the hash of the commit it stored and
\* what it reported.  The positions are the reads and writes of commit in
\* their order: create_tree_from_index (212), the branch ref read (214-217),
\* load_index (219-222), the parent's tree compared (224-229), store_object
\* (238), set_branch_commit (240), save_index (242).
CommitMessages == {"m", "n"}
InitCommit == Init /\ impl = 2
commit_process(message) ==
    [message |-> message, pc |-> "tree", tree |-> hash(Tree(<<>>)),
     parent |-> <<>>, commit_hash |-> <<>>, ret |-> ""]
StartCommits ==
    /\ Len(todo) = 0
    /\ Len(index) > 0
    /\ Cardinality(commits_of(objects)) < MaxCommits
    /\ \E m1 \in CommitMessages, m2 \in CommitMessages :
          todo' = <<commit_process(m1), commit_process(m2)>>
    /\ UNCHANGED <<impl, wd, vars1, vars2, last>>
\* One step of one of the two processes.
CommitStep ==
    /\ Len(todo) = 2
    /\ \E i \in 1 .. 2 :
          LET me == todo[i]
              built == create_tree_from_index(index)
              parent_obj == load_object(objects, me.parent[1])
              new_commit == Commit(me.tree, me.parent, "", "", me.message, 1)
          IN \/ /\ me.pc = "tree"
                /\ IF built.ok
                   THEN /\ objects' =
                              Run([j \in 1 .. Len(built.stores) |->
                                       store_object(built.stores[j])],
                                  Cur).S.objects
                        /\ todo' = [todo EXCEPT ![i].pc = "parent",
                                                ![i].tree = built.hash]
                   ELSE /\ todo' = [todo EXCEPT ![i].pc = "done",
                                                ![i].ret = "error"]
                        /\ UNCHANGED objects
                /\ UNCHANGED <<index, heads>>
             \/ /\ me.pc = "parent"
                /\ todo' = [todo EXCEPT
                                ![i].pc = "index",
                                ![i].parent =
                                    get_branch_commit(heads,
                                                      get_current_branch(HEAD))]
                /\ UNCHANGED <<objects, index, heads>>
             \/ /\ me.pc = "index"
                /\ todo' = IF Len(index) = 0
                           THEN [todo EXCEPT ![i].pc = "done",
                                             ![i].ret = "nothing"]
                           ELSE [todo EXCEPT ![i].pc = "compare"]
                /\ UNCHANGED <<objects, index, heads>>
             \/ /\ me.pc = "compare"
                /\ todo' =
                      IF Len(me.parent) = 0
                      THEN [todo EXCEPT ![i].pc = "store"]
                      ELSE IF ~parent_obj.ok
                      THEN [todo EXCEPT ![i].pc = "done", ![i].ret = "error"]
                      ELSE IF me.tree =
                              commit_from_content(parent_obj.obj.content).tree_hash
                      THEN [todo EXCEPT ![i].pc = "done", ![i].ret = "nothing"]
                      ELSE [todo EXCEPT ![i].pc = "store"]
                /\ UNCHANGED <<objects, index, heads>>
             \/ /\ me.pc = "store"
                /\ objects' = Exec2(store_object(new_commit), Cur).S.objects
                /\ todo' = [todo EXCEPT ![i].pc = "ref",
                                        ![i].commit_hash = <<hash(new_commit)>>]
                /\ UNCHANGED <<index, heads>>
             \/ /\ me.pc = "ref"
                /\ heads' = Exec2(set_branch_commit(get_current_branch(HEAD),
                                                    me.commit_hash[1]),
                                  Cur).S.heads
                /\ todo' = [todo EXCEPT ![i].pc = "clear"]
                /\ UNCHANGED <<objects, index>>
             \/ /\ me.pc = "clear"
                /\ index' = Exec2(save_index(<<>>), Cur).S.index
                /\ todo' = [todo EXCEPT ![i].pc = "done", ![i].ret = "created"]
                /\ UNCHANGED <<objects, heads>>
    /\ UNCHANGED <<impl, wd, HEAD, vars1, last>>
\* Both invocations have returned.
CommitsDone == Len(todo) = 2 /\ \A i \in 1 .. 2 : todo[i].pc = "done"
FinishCommits ==
    /\ CommitsDone
    /\ todo' = <<>>
    /\ UNCHANGED <<impl, wd, vars1, vars2, last>>
NextCommit ==
    \/ WriteSwitch \/ AddSwitch2
    \/ StartCommits \/ CommitStep \/ FinishCommits
SpecCommit == InitCommit /\ [][NextCommit]_vars

\* C32: in implementation 2, when two commit invocations on the same branch
\* run in any interleaving and both report a created commit, both new commits
\* are reached from the final branch head by following parent links.
C32_NoCommitLost ==
    (CommitsDone /\ \A i \in 1 .. 2 : todo[i].ret = "created") =>
        LET w == parent_walk2(objects,
                              get_branch_commit(heads, get_current_branch(HEAD)),
                              Cardinality(commits_of(objects)))
        IN \A i \in 1 .. 2 :
               \E j \in 1 .. Len(w.seen) : w.seen[j] = todo[i].commit_hash[1]

====
